---- MODULE Spec2Model ----
(***************************************************************************)
(* Fund analytics and recommendation engine of the AMC chatbot back end    *)
(* (src/back-end/react_agent/tools.py, utils.py).                          *)
(*                                                                         *)
(* Conventions of the model                                                *)
(*   - Python str is a TLA+ string; its characters are read with SubSeq.   *)
(*   - A Python value that may be None, a str or a number is a tagged      *)
(*     record: None, Str(s), Num(v).                                       *)
(*   - A Python float is an integer count of hundredths (12.5 is 1250).    *)
(*     Scores, which multiply a float by a one-decimal weight, are counted *)
(*     in thousandths.  Arithmetic is exact; binary rounding error of the  *)
(*     IEEE doubles is not modelled.                                       *)
(*   - A Python dict is a function whose DOMAIN is the set of keys present.*)
(***************************************************************************)
EXTENDS Integers, Sequences, FiniteSets, TLC

VARIABLES index, fault, result,
          user_context,
          active_sessions, requests,
          upserter, rows_left, vectors_to_upsert, all_chunks, upserted

vars == <<index, fault, result, user_context, active_sessions, requests,
          upserter, rows_left, vectors_to_upsert, all_chunks, upserted>>

\* the state of the store and of the tool call
toolVars == <<index, fault, result>>

\* the context of the lead dialogue
leadVars == <<user_context>>

\* the state of the chat server
serverVars == <<active_sessions, requests>>

\* the state of a run of an upserter
upsertVars == <<upserter, rows_left, vectors_to_upsert, all_chunks, upserted>>

\* a dict without keys
EmptyDict == [key \in {} |-> 0]

\* no lead dialogue has taken place
LeadAtRest == user_context = EmptyDict

\* the server holds no session and handles no request
ServerAtRest == active_sessions = EmptyDict /\ requests = <<>>

\* no upserter runs
UpsertAtRest ==
    /\ upserter = "none" /\ rows_left = 0
    /\ vectors_to_upsert = 0 /\ all_chunks = 0 /\ upserted = <<>>

(***************************************************************************)
(* Bounds of the model.                                                    *)
(***************************************************************************)
\* largest number of fund rows held by the store
MaxFunds == 4

(***************************************************************************)
(* Python values.                                                          *)
(***************************************************************************)
None == [t |-> "none"]

Num(v) == [t |-> "num", v |-> v]

Str(s) == [t |-> "str", s |-> s]

\* dict.get(key, default)
Get(d, key, default) == IF key \in DOMAIN d THEN d[key] ELSE default

\* d[key] = value on a dict (adds the key when absent)
Put(d, key, value) == [k \in DOMAIN d \cup {key} |-> IF k = key THEN value ELSE d[k]]

\* Python truthiness of an optional float: `x or default`, as a number.
\* None and 0.0 are both falsy.
OrDefault(x, default) == IF x = None \/ x.v = 0 THEN default ELSE x.v

Range(f) == {f[x] : x \in DOMAIN f}

Max(a, b) == IF a >= b THEN a ELSE b

Min(a, b) == IF a <= b THEN a ELSE b

(***************************************************************************)
(* Strings.                                                                *)
(***************************************************************************)
Char(s, i) == SubSeq(s, i, i)

Digits == {"0", "1", "2", "3", "4", "5", "6", "7", "8", "9"}

DigitVal(c) ==
    CASE c = "0" -> 0 [] c = "1" -> 1 [] c = "2" -> 2 [] c = "3" -> 3
      [] c = "4" -> 4 [] c = "5" -> 5 [] c = "6" -> 6 [] c = "7" -> 7
      [] c = "8" -> 8 [] c = "9" -> 9

\* str.replace(ch, "") for a one-character ch
RECURSIVE Remove(_, _)
Remove(s, ch) ==
    IF Len(s) = 0 THEN ""
    ELSE IF Head(s) = ch THEN Remove(Tail(s), ch)
    ELSE Head(s) \o Remove(Tail(s), ch)

\* str.strip() of blanks
RECURSIVE Strip(_)
Strip(s) ==
    IF Len(s) = 0 THEN s
    ELSE IF Head(s) = " " THEN Strip(Tail(s))
    ELSE IF Char(s, Len(s)) = " " THEN Strip(SubSeq(s, 1, Len(s) - 1))
    ELSE s

AllDigits(s) == \A i \in 1..Len(s) : Char(s, i) \in Digits

\* value of a run of decimal digits
RECURSIVE DigitsValue(_)
DigitsValue(s) ==
    IF Len(s) = 0 THEN 0
    ELSE DigitsValue(SubSeq(s, 1, Len(s) - 1)) * 10 + DigitVal(Char(s, Len(s)))

RECURSIVE Pow10(_)
Pow10(n) == IF n = 0 THEN 1 ELSE 10 * Pow10(n - 1)

\* position of the first "." of s, or 0
DotAt(s) ==
    IF \E i \in 1..Len(s) : Char(s, i) = "."
    THEN CHOOSE i \in 1..Len(s) : Char(s, i) = "." /\ \A j \in 1..(i - 1) : Char(s, j) # "."
    ELSE 0

\* float(s) on an unsigned decimal literal: digits, digits.digits, digits. or
\* .digits, in hundredths; None stands for ValueError.  Fraction digits beyond
\* the second are dropped (no input of the model has them).
UnsignedFloat(s) ==
    LET dot == DotAt(s)
        ip  == IF dot = 0 THEN s ELSE SubSeq(s, 1, dot - 1)
        fp  == IF dot = 0 THEN "" ELSE SubSeq(s, dot + 1, Len(s))
    IN  IF Len(ip) + Len(fp) = 0 \/ ~AllDigits(ip) \/ ~AllDigits(fp) THEN None
        ELSE Num(DigitsValue(ip) * 100 + (DigitsValue(fp) * 100) \div Pow10(Len(fp)))

\* round(x, 2) of a score in thousandths: hundredths, ties to even
Round2(m) ==
    LET q == m \div 10
        r == m % 10
    IN  IF r > 5 \/ (r = 5 /\ q % 2 = 1) THEN q + 1 ELSE q

(***************************************************************************)
(* More strings: case mapping and containment.                             *)
(***************************************************************************)
UpperLetters == "ABCDEFGHIJKLMNOPQRSTUVWXYZ"

LowerLetters == "abcdefghijklmnopqrstuvwxyz"

UpperSet == {Char(UpperLetters, i) : i \in 1..26}

LowerSet == {Char(LowerLetters, i) : i \in 1..26}

LowerOf == [c \in UpperSet |-> Char(LowerLetters, CHOOSE i \in 1..26 : Char(UpperLetters, i) = c)]

UpperOf == [c \in LowerSet |-> Char(UpperLetters, CHOOSE i \in 1..26 : Char(LowerLetters, i) = c)]

IsUpper(c) == c \in UpperSet

IsLower(c) == c \in LowerSet

LowerChar(c) == IF c \in UpperSet THEN LowerOf[c] ELSE c

UpperChar(c) == IF c \in LowerSet THEN UpperOf[c] ELSE c

\* str.lower()
RECURSIVE Lower(_)
Lower(s) == IF Len(s) = 0 THEN "" ELSE LowerChar(Head(s)) \o Lower(Tail(s))

\* the values of float() that are not finite numbers
NaN == [t |-> "nan"]

Inf(negative) == [t |-> "inf", negative |-> negative]

\* float(s) for a str: surrounding blanks stripped, optional sign, then a
\* decimal literal or, in any letter case, one of the spellings nan, inf and
\* infinity; None stands for ValueError.  Exponents and underscores are
\* outside the alphabet of the model.
PyFloat(s) ==
    LET t    == Strip(s)
        neg  == Len(t) > 0 /\ Head(t) = "-"
        sgn  == Len(t) > 0 /\ Head(t) \in {"-", "+"}
        body == IF sgn THEN Tail(t) ELSE t
        u    == UnsignedFloat(body)
    IN  IF Lower(body) = "nan" THEN NaN
        ELSE IF Lower(body) \in {"inf", "infinity"} THEN Inf(neg)
        ELSE IF u = None THEN None ELSE IF neg THEN Num(0 - u.v) ELSE u

\* tools.py _safe_float
_safe_float(value) ==
    IF value = None \/ value = Str("N/A") \/ value = Str("-") THEN None
    ELSE IF value.t = "str"
         THEN PyFloat(Remove(Remove(value.s, ","), "%"))
         ELSE value

\* str.title(): a letter that follows a non-letter is upper-cased, every
\* other letter lower-cased
RECURSIVE TitleFrom(_, _)
TitleFrom(s, afterLetter) ==
    IF Len(s) = 0 THEN ""
    ELSE LET c == Head(s)
             letter == IsUpper(c) \/ IsLower(c)
         IN  (IF afterLetter THEN LowerChar(c) ELSE UpperChar(c))
                 \o TitleFrom(Tail(s), letter)

Title(s) == TitleFrom(s, FALSE)

(***************************************************************************)
(* The vector index (MetricStore).  The state of the index is the sequence *)
(* of the metadata dicts of its vectors, in the order a query returns them.*)
(* One vector is upserted per non-empty cell of a fund row                 *)
(* (Data-Upsertion/upsert_to_pinecone.py).                                 *)
(***************************************************************************)
\* column order of the fund sheet
Columns == <<"Fund Name", "Risk Profile", "Net Asset Value", "Total Expense Ratio",
             "30D", "90D", "180D", "365D", "Return YTD">>

\* FundDataUpserter._to_snake_case: characters other than word characters and
\* blanks dropped, each run of blanks one "_", lower-cased
RECURSIVE SnakeFrom(_, _)
SnakeFrom(s, afterBlank) ==
    IF Len(s) = 0 THEN ""
    ELSE LET c == Head(s)
         IN  IF c = " "
             THEN (IF afterBlank THEN "" ELSE "_") \o SnakeFrom(Tail(s), TRUE)
             ELSE IF IsUpper(c) \/ IsLower(c) \/ c \in Digits \/ c = "_"
             THEN LowerChar(c) \o SnakeFrom(Tail(s), FALSE)
             ELSE SnakeFrom(Tail(s), FALSE)

_to_snake_case(text) == SnakeFrom(text, FALSE)

\* _to_snake_case of the columns of the sheet
SnakeKeys == [c \in {Columns[i] : i \in 1..Len(Columns)} |-> _to_snake_case(c)]

\* FundDataUpserter._create_metadata: the cell itself under column/value, every
\* other non-empty cell of the row under its snake_case key
_create_metadata(fund_row, column_name, column_value) ==
    LET others == {c \in DOMAIN fund_row : c # column_name}
        keys   == {"fund_name", "column", "value"} \cup {SnakeKeys[c] : c \in others}
    IN  [k \in keys |->
            IF \E c \in others : SnakeKeys[c] = k
            THEN fund_row[CHOOSE c \in others : SnakeKeys[c] = k]
            ELSE IF k = "fund_name" THEN fund_row["Fund Name"]
            ELSE IF k = "column" THEN column_name
            ELSE column_value]

\* FundDataUpserter._process_fund_row: one vector per non-empty cell, in
\* column order (a row is a function from its non-empty columns to strings)
_process_fund_row(fund_row) ==
    LET present == SelectSeq(Columns, LAMBDA c : c \in DOMAIN fund_row)
    IN  [i \in 1..Len(present) |-> _create_metadata(fund_row, present[i], fund_row[present[i]])]

RECURSIVE Concat(_)
Concat(seqs) == IF seqs = <<>> THEN <<>> ELSE Head(seqs) \o Concat(Tail(seqs))

\* the index after upserting the rows in order
IndexOf(rows) == Concat([i \in 1..Len(rows) |-> _process_fund_row(rows[i])])

\* index.query(filter={k: {"$eq": v}, ...}, top_k=n, include_metadata=True):
\* the metadata of the first n vectors that carry every filter key with the
\* filter's value
Query(filter, top_k) ==
    LET hits == SelectSeq(index, LAMBDA m : \A k \in DOMAIN filter :
                                        k \in DOMAIN m /\ m[k] = filter[k])
    IN  SubSeq(hits, 1, Min(top_k, Len(hits)))

(***************************************************************************)
(* Failures of the gateway.  `fault` is the condition of the gateway during *)
(* the tool call of the behaviour: up, down (every query raises), or        *)
(* failing for the point lookup of one (fund, metric) pair.                 *)
(***************************************************************************)
NoFault == [kind |-> "none"]

Down == [kind |-> "down"]

LookupFault(fund_name, metric) == [kind |-> "lookup", fund_name |-> fund_name, metric |-> metric]

\* index.query(filter=...) raises under the gateway condition gw
QueryRaises(filter, gw) ==
    \/ gw.kind = "down"
    \/ /\ gw.kind = "lookup"
       /\ DOMAIN filter = {"fund_name", "column"}
       /\ filter.fund_name = gw.fund_name
       /\ filter.column = gw.metric

\* metadata.get(key): a str of the store, or None
MetaGet(metadata, key) == IF key \in DOMAIN metadata THEN Str(metadata[key]) ELSE None

\* utils.py query_funds_by_risk_profile, the loop over the matches: the first
\* match of each fund name becomes the fund's dict
RECURSIVE FundsOfMatches(_, _)
FundsOfMatches(matches, fund_names_seen) ==
    IF matches = <<>> THEN <<>>
    ELSE LET metadata  == Head(matches)
             fund_name == Get(metadata, "fund_name", "")
         IN  IF fund_name # "" /\ fund_name \notin fund_names_seen
             THEN <<[name              |-> fund_name,
                     risk_profile      |-> MetaGet(metadata, "risk_profile"),
                     nav               |-> MetaGet(metadata, "net_asset_value"),
                     return_365d       |-> MetaGet(metadata, "365d"),
                     return_ytd        |-> MetaGet(metadata, "return_ytd"),
                     expense_ratio     |-> MetaGet(metadata, "total_expense_ratio"),
                     management_fee    |-> MetaGet(metadata, "management_fee"),
                     pricing_mechanism |-> MetaGet(metadata, "pricing_mechanism")]>>
                  \o FundsOfMatches(Tail(matches), fund_names_seen \cup {fund_name})
             ELSE FundsOfMatches(Tail(matches), fund_names_seen)

\* utils.py query_funds_by_risk_profile: a query that raises is caught and
\* gives the empty list
query_funds_by_risk_profile(risk_profile, gw) ==
    LET wanted == Title(risk_profile)
        filter == [risk_profile |-> wanted]
    IN  IF QueryRaises(filter, gw) THEN <<>>
        ELSE FundsOfMatches(Query(filter, 100), {})

(***************************************************************************)
(* Scoring and ranking (smart_recommender).                                *)
(***************************************************************************)
\* _calculate_fund_score returning the raw score, without the floor at 0
_calculate_fund_score_unfloored(fund, priority, time_horizon) ==
    LET return_365d   == OrDefault(_safe_float(Get(fund, "return_365d", Num(0))), 0)
        expense_ratio == OrDefault(_safe_float(Get(fund, "expense_ratio", Num(500))), 500)
    IN  IF priority = "returns" THEN return_365d * 8
        ELSE IF priority = "fees" THEN (500 - expense_ratio) * 200
        ELSE IF priority = "stability" THEN 50000
        ELSE return_365d * 6 + (500 - expense_ratio) * 100

\* tools.py _calculate_fund_score.  Fields in hundredths, the score in
\* thousandths: r * 0.8 is r_hundredths * 8, (5 - e) * 20 is
\* (500 - e_hundredths) * 200, and so on.
_calculate_fund_score(fund, priority, time_horizon) ==
    LET return_365d   == OrDefault(_safe_float(Get(fund, "return_365d", Num(0))), 0)
        expense_ratio == OrDefault(_safe_float(Get(fund, "expense_ratio", Num(500))), 500)
        score == IF priority = "returns" THEN return_365d * 8
                 ELSE IF priority = "fees" THEN (500 - expense_ratio) * 200
                 ELSE IF priority = "stability" THEN 50000
                 ELSE return_365d * 6 + (500 - expense_ratio) * 100
    IN  Max(score, 0)

\* a descending sort that puts an element before the earlier elements of
\* equal key (not stable)
RECURSIVE SortedDescOrder_unstable(_, _)
SortedDescOrder_unstable(keys, n) ==
    IF n = 0 THEN <<>>
    ELSE LET prev == SortedDescOrder_unstable(keys, n - 1)
             pos  == Cardinality({i \in 1..Len(prev) : keys[prev[i]] > keys[n]})
         IN  SubSeq(prev, 1, pos) \o <<n>> \o SubSeq(prev, pos + 1, Len(prev))

\* sorted(items, key=..., reverse=True) as the order of the indices 1..n of
\* `keys`: descending, equal keys in their original order (Python's sort is
\* stable, and stays so under reverse=True)
RECURSIVE SortedDescOrder(_, _)
SortedDescOrder(keys, n) ==
    IF n = 0 THEN <<>>
    ELSE LET prev == SortedDescOrder(keys, n - 1)
             pos  == Cardinality({i \in 1..Len(prev) : keys[prev[i]] >= keys[n]})
         IN  SubSeq(prev, 1, pos) \o <<n>> \o SubSeq(prev, pos + 1, Len(prev))

\* sorted(items, key=lambda x: x[key], reverse=True)
SortedDesc(items, key) ==
    LET order == SortedDescOrder([i \in 1..Len(items) |-> items[i][key]], Len(items))
    IN  [i \in 1..Len(items) |-> items[order[i]]]

\* the scoring loop keeping every fund, whatever its score
RECURSIVE ScoredFunds_keep_zero(_, _, _)
ScoredFunds_keep_zero(funds_data, priority, time_horizon) ==
    IF funds_data = <<>> THEN <<>>
    ELSE LET fund  == Head(funds_data)
             score == _calculate_fund_score(fund, priority, time_horizon)
         IN  <<Put(fund, "score", score)>>
                 \o ScoredFunds_keep_zero(Tail(funds_data), priority, time_horizon)

\* smart_recommender, the scoring loop: a fund is kept, with its score
\* stored in it, when the score is positive
RECURSIVE ScoredFunds(_, _, _)
ScoredFunds(funds_data, priority, time_horizon) ==
    IF funds_data = <<>> THEN <<>>
    ELSE LET fund  == Head(funds_data)
             score == _calculate_fund_score(fund, priority, time_horizon)
             rest  == ScoredFunds(Tail(funds_data), priority, time_horizon)
         IN  IF score > 0 THEN <<Put(fund, "score", score)>> \o rest ELSE rest

\* smart_recommender, the slice [:3] of the sorted candidates
TopFunds(scored_funds) ==
    LET ranked == SortedDesc(scored_funds, "score")
    IN  SubSeq(ranked, 1, Min(3, Len(ranked)))

\* tools.py smart_recommender.  The texts of the result (title, rationale,
\* expected_return, investment_strategy) are left out.
smart_recommender(risk_profile, investment_amount, time_horizon, priority, gw) ==
    LET funds_data   == query_funds_by_risk_profile(risk_profile, gw)
        scored_funds == ScoredFunds(funds_data, priority, time_horizon)
        top_funds    == TopFunds(scored_funds)
    IN  /\ result' = [type |-> "smart_recommendation",
                      criteria |-> [risk_profile      |-> risk_profile,
                                    investment_amount |-> investment_amount,
                                    time_horizon      |-> time_horizon,
                                    priority          |-> priority],
                      recommendations |->
                          [i \in 1..Len(top_funds) |->
                              [rank  |-> i,
                               fund  |-> top_funds[i],
                               score |-> Round2(top_funds[i].score)]],
                      total_funds_evaluated |-> Len(funds_data)]
        /\ fault' = gw
        /\ UNCHANGED <<index, leadVars, serverVars, upsertVars>>

(***************************************************************************)
(* Fund sheets the index is loaded from.                                   *)
(***************************************************************************)
FundNames == <<"JBS Income Fund", "JBS Alpha Growth Fund", "JBS Beta Fund",
               "JBS Cash Fund", "JBS Equity Fund", "JBS Islamic Fund">>

\* FundDataUpserter._clean_value on a cell read as text; "" stands for the
\* None of an empty cell: blanks stripped, a lone dash is a missing value,
\* the commas of a run of digits and commas are removed, one trailing percent
\* sign is cut
_clean_value(value) ==
    IF value = "" THEN ""
    ELSE LET str_value == Strip(value)
             grouped   == Len(str_value) > 0 /\
                          \A i \in 1..Len(str_value) : Char(str_value, i) \in Digits \cup {","}
             ungrouped == IF grouped THEN Remove(str_value, ",") ELSE str_value
         IN  IF str_value = "-" THEN ""
             ELSE IF Len(ungrouped) > 0 /\ Char(ungrouped, Len(ungrouped)) = "%"
             THEN Strip(SubSeq(ungrouped, 1, Len(ungrouped) - 1))
             ELSE ungrouped

\* a sheet row as _process_fund_row and _create_metadata keep it: every cell
\* cleaned, the cells that clean to None left out (they get neither a vector
\* nor a metadata key)
FundRow(name, cells) ==
    LET all == [c \in {"Fund Name"} \cup DOMAIN cells |->
                    _clean_value(IF c = "Fund Name" THEN name ELSE cells[c])]
    IN  [c \in {c \in DOMAIN all : all[c] # ""} |-> all[c]]

Cells(risk, nav, ter, r365, ytd) ==
    [c \in {"Risk Profile", "Net Asset Value", "Total Expense Ratio", "365D", "Return YTD"} |->
        CASE c = "Risk Profile" -> risk
          [] c = "Net Asset Value" -> nav
          [] c = "Total Expense Ratio" -> ter
          [] c = "365D" -> r365
          [] c = "Return YTD" -> ytd]

\* every sheet of at most MaxFunds rows whose cells come from `pool`; row i
\* carries the i-th fund name
Sheets(pool) ==
    UNION {{[i \in 1..n |-> FundRow(FundNames[i], f[i])] : f \in [1..n -> pool]} : n \in 0..MaxFunds}

(***************************************************************************)
(* Specification of the recommender.                                       *)
(***************************************************************************)
RecommendPool ==
    {Cells("High", "100", "2", "80", ""),
     Cells("High", "100", "1", "60", ""),
     Cells("High", "100", "0", "-5", ""),
     Cells("High", "100", "6.5", "-", ""),
     Cells("Low", "1,250", "", "12.5%", "")}

Priorities == {"returns", "fees", "stability", "balanced", "growth"}

TimeHorizons == {"1 year", "6 months"}

RiskInputs == {"High", "low"}

\* One behaviour is one tool call: a tool reads the index, writes nothing to
\* it and keeps nothing between calls, so a call is made from the state in
\* which no result has been produced yet.
NoResult == [type |-> "none"]

InitRecommend ==
    /\ index \in {IndexOf(sheet) : sheet \in Sheets(RecommendPool)}
    /\ fault = NoFault
    /\ result = NoResult
    /\ LeadAtRest /\ ServerAtRest /\ UpsertAtRest

\* application of _calculate_fund_score to one fund the store returns
CalculateFundScore ==
    /\ result = NoResult
    /\ \E risk_profile \in RiskInputs, priority \in Priorities, time_horizon \in TimeHorizons :
        \E fund \in Range(query_funds_by_risk_profile(risk_profile, NoFault)) :
                /\ result' = [type |-> "fund_score",
                              fund |-> fund,
                              priority |-> priority,
                              time_horizon |-> time_horizon,
                              score |-> _calculate_fund_score(fund, priority, time_horizon)]
                /\ UNCHANGED <<index, fault, leadVars, serverVars, upsertVars>>

SmartRecommender ==
    /\ result = NoResult
    /\ \E risk_profile \in RiskInputs, priority \in Priorities, time_horizon \in TimeHorizons,
          gw \in {NoFault, Down} :
        smart_recommender(risk_profile, "100,000", time_horizon, priority, gw)

NextRecommend == CalculateFundScore \/ SmartRecommender

SpecRecommend == InitRecommend /\ [][NextRecommend]_vars

(***************************************************************************)
(* Fund universe and fund profiles (get_all_fund_names,                    *)
(* _get_fund_complete_data).                                               *)
(***************************************************************************)
\* an exception leaving a function
Raise == [t |-> "raise"]

\* the characters of the model in code point order
CodePoints == " %,-./0123456789ABCDEFGHIJKLMNOPQRSTUVWXYZ_abcdefghijklmnopqrstuvwxyz"

Ord == [c \in {Char(CodePoints, i) : i \in 1..Len(CodePoints)} |->
            CHOOSE i \in 1..Len(CodePoints) : Char(CodePoints, i) = c]

\* a < b for Python str: lexicographic by code point
RECURSIVE StrLess(_, _)
StrLess(a, b) ==
    IF Len(b) = 0 THEN FALSE
    ELSE IF Len(a) = 0 THEN TRUE
    ELSE IF Head(a) = Head(b) THEN StrLess(Tail(a), Tail(b))
    ELSE Ord[Head(a)] < Ord[Head(b)]

\* sorted(names) for a list of str
RECURSIVE SortedStrings(_)
SortedStrings(names) ==
    IF names = <<>> THEN <<>>
    ELSE LET prev == SortedStrings(SubSeq(names, 1, Len(names) - 1))
             x    == names[Len(names)]
             pos  == Cardinality({i \in 1..Len(prev) : ~StrLess(x, prev[i])})
         IN  SubSeq(prev, 1, pos) \o <<x>> \o SubSeq(prev, pos + 1, Len(prev))

\* utils.py get_all_fund_names, the loop over the matches
RECURSIVE NamesOfMatches(_, _)
NamesOfMatches(matches, fund_names) ==
    IF matches = <<>> THEN fund_names
    ELSE LET fund_name == Get(Head(matches), "value", "")
         IN  NamesOfMatches(Tail(matches),
                            IF fund_name # "" /\ fund_name \notin Range(fund_names)
                            THEN Append(fund_names, fund_name) ELSE fund_names)

\* utils.py get_all_fund_names: a query that raises is caught and gives the
\* empty list
get_all_fund_names(gw) ==
    LET filter == [column |-> "Fund Name"]
    IN  IF QueryRaises(filter, gw) THEN <<>>
        ELSE SortedStrings(NamesOfMatches(Query(filter, 100), <<>>))

\* _get_fund_complete_data, the metrics fetched, in order
Metrics == <<"Risk Profile", "Total Expense Ratio", "365D", "Return YTD", "Net Asset Value">>

\* _get_fund_complete_data, the key a metric is stored under
MetricKey(metric) ==
    CASE metric = "Risk Profile" -> "risk_profile"
      [] metric = "Total Expense Ratio" -> "expense_ratio"
      [] metric = "365D" -> "return_365d"
      [] metric = "Return YTD" -> "return_ytd"
      [] metric = "Net Asset Value" -> "nav"

\* _get_fund_complete_data, the loop over the metrics: one point lookup per
\* metric; a lookup that raises is not caught here
RECURSIVE FundDataFrom(_, _, _, _)
FundDataFrom(fund_data, fund_name, metrics, gw) ==
    IF metrics = <<>> THEN fund_data
    ELSE LET metric == Head(metrics)
             filter == [fund_name |-> fund_name, column |-> metric]
         IN  IF QueryRaises(filter, gw) THEN Raise
             ELSE LET matches == Query(filter, 1)
                      value   == MetaGet(matches[1], "value")
                  IN  FundDataFrom(
                          IF matches = <<>> THEN fund_data
                          ELSE Put(fund_data, MetricKey(metric),
                                   IF metric = "Risk Profile" THEN value ELSE _safe_float(value)),
                          fund_name, Tail(metrics), gw)

\* tools.py _get_fund_complete_data: the fund's dict, or Raise
_get_fund_complete_data(fund_name, gw) ==
    FundDataFrom([name |-> fund_name], fund_name, Metrics, gw)

(***************************************************************************)
(* Portfolio allocation (portfolio_builder).                               *)
(***************************************************************************)
\* n / d rounded to the nearest integer, ties to even (d > 0)
RoundHalfEven(n, d) ==
    LET q == n \div d
        r == n % d
    IN  IF 2 * r > d \/ (2 * r = d /\ q % 2 = 1) THEN q + 1 ELSE q

\* _create_portfolio_allocation, the key of max(): the 365D return, 0 when
\* it is missing (or zero)
ReturnKey(fund) == OrDefault(_safe_float(Get(fund, "return_365d", Num(0))), 0)

\* the last fund of the greatest key
RECURSIVE MaxByReturn_last(_, _)
MaxByReturn_last(best, rest) ==
    IF rest = <<>> THEN best
    ELSE MaxByReturn_last(IF ReturnKey(Head(rest)) >= ReturnKey(best) THEN Head(rest) ELSE best,
                          Tail(rest))

\* max(category_funds, key=...): the first fund of the greatest key
RECURSIVE MaxByReturn(_, _)
MaxByReturn(best, rest) ==
    IF rest = <<>> THEN best
    ELSE MaxByReturn(IF ReturnKey(Head(rest)) > ReturnKey(best) THEN Head(rest) ELSE best,
                     Tail(rest))

\* a table whose (Low, other) row gives the High bucket 20
AllocationTable_skewed(risk_profile, diversification) ==
    IF risk_profile = "Low"
    THEN IF diversification = "conservative" THEN <<70, 25, 5>> ELSE <<60, 30, 20>>
    ELSE IF risk_profile = "Medium"
    THEN IF diversification = "conservative" THEN <<40, 50, 10>> ELSE <<30, 50, 20>>
    ELSE IF diversification = "conservative" THEN <<20, 30, 50>> ELSE <<10, 30, 60>>

\* a table whose other rows are selected by "moderate" alone
AllocationTable_moderate_only(risk_profile, diversification) ==
    IF risk_profile = "Low"
    THEN IF diversification # "moderate" THEN <<70, 25, 5>> ELSE <<60, 30, 10>>
    ELSE IF risk_profile = "Medium"
    THEN IF diversification # "moderate" THEN <<40, 50, 10>> ELSE <<30, 50, 20>>
    ELSE IF diversification # "moderate" THEN <<20, 30, 50>> ELSE <<10, 30, 60>>

\* _create_portfolio_allocation, the percentages of the Low, Medium and High
\* buckets for a risk profile and a diversification level
AllocationTable(risk_profile, diversification) ==
    IF risk_profile = "Low"
    THEN IF diversification = "conservative" THEN <<70, 25, 5>> ELSE <<60, 30, 10>>
    ELSE IF risk_profile = "Medium"
    THEN IF diversification = "conservative" THEN <<40, 50, 10>> ELSE <<30, 50, 20>>
    ELSE IF diversification = "conservative" THEN <<20, 30, 50>> ELSE <<10, 30, 60>>

RiskCategories == <<"Low", "Medium", "High">>

\* the loop over the buckets handing the percentage of an empty bucket to
\* the next entry
RECURSIVE AllocateFrom_renormalized(_, _, _)
AllocateFrom_renormalized(i, funds, percentages) ==
    IF i > Len(RiskCategories) THEN <<>>
    ELSE LET risk_cat       == RiskCategories[i]
             percentage     == percentages[i]
             category_funds == SelectSeq(funds, LAMBDA f : Get(f, "risk_category", "") = risk_cat)
             best_fund      == MaxByReturn(Head(category_funds), Tail(category_funds))
             carried        == [k \in 1..Len(percentages) |->
                                   IF k = i + 1 THEN percentages[k] + percentage
                                   ELSE percentages[k]]
         IN  IF percentage > 0 /\ category_funds # <<>>
             THEN <<[fund_name     |-> Get(best_fund, "name", "Unknown"),
                     risk_category |-> risk_cat,
                     percentage    |-> percentage,
                     nav           |-> _safe_float(Get(best_fund, "nav", Num(10000))),
                     expense_ratio |-> _safe_float(Get(best_fund, "expense_ratio", Num(200))),
                     return_365d   |-> _safe_float(Get(best_fund, "return_365d", Num(0)))]>>
                  \o AllocateFrom_renormalized(i + 1, funds, percentages)
             ELSE AllocateFrom_renormalized(i + 1, funds, carried)

\* _create_portfolio_allocation, the loop over the buckets from bucket i on
RECURSIVE AllocateFrom(_, _, _)
AllocateFrom(i, funds, percentages) ==
    IF i > Len(RiskCategories) THEN <<>>
    ELSE LET risk_cat       == RiskCategories[i]
             percentage     == percentages[i]
             category_funds == SelectSeq(funds, LAMBDA f : Get(f, "risk_category", "") = risk_cat)
             best_fund      == MaxByReturn(Head(category_funds), Tail(category_funds))
             rest           == AllocateFrom(i + 1, funds, percentages)
         IN  IF percentage > 0 /\ category_funds # <<>>
             THEN <<[fund_name     |-> Get(best_fund, "name", "Unknown"),
                     risk_category |-> risk_cat,
                     percentage    |-> percentage,
                     nav           |-> _safe_float(Get(best_fund, "nav", Num(10000))),
                     expense_ratio |-> _safe_float(Get(best_fund, "expense_ratio", Num(200))),
                     return_365d   |-> _safe_float(Get(best_fund, "return_365d", Num(0)))]>>
                  \o rest
             ELSE rest

\* tools.py _create_portfolio_allocation (the rationale text is left out)
_create_portfolio_allocation(funds, risk_profile, diversification) ==
    AllocateFrom(1, funds, AllocationTable(risk_profile, diversification))

\* re.findall(r'[\d,]+', s)[0]: the first maximal run of digits and commas,
\* "" when there is none
FirstNumberRun(s) ==
    LET isNum(i) == Char(s, i) \in Digits \cup {","}
    IN  IF \A i \in 1..Len(s) : ~isNum(i) THEN ""
        ELSE LET first == CHOOSE i \in 1..Len(s) : isNum(i) /\ \A j \in 1..(i - 1) : ~isNum(j)
                 last  == CHOOSE k \in first..Len(s) :
                              /\ \A j \in first..k : isNum(j)
                              /\ k = Len(s) \/ ~isNum(k + 1)
             IN  SubSeq(s, first, last)

\* tools.py _parse_investment_amount, in hundredths: the first run with its
\* commas removed, 100000 without a run; float("") of a run of commas raises
_parse_investment_amount(amount_str) ==
    LET run == FirstNumberRun(amount_str)
    IN  IF run = "" THEN Num(10000000)
        ELSE LET parsed == PyFloat(Remove(run, ","))
             IN  IF parsed = None THEN Raise ELSE parsed

\* tools.py _calculate_portfolio_return, in hundredths: a fixed estimate
_calculate_portfolio_return(allocation) == 1250

RECURSIVE SumSeq(_)
SumSeq(xs) == IF xs = <<>> THEN 0 ELSE Head(xs) + SumSeq(Tail(xs))

\* tools.py _calculate_portfolio_risk: the weighted risk, in hundredths,
\* against 1.5 and 2.5
_calculate_portfolio_risk(allocation) ==
    LET risk_score(cat) == CASE cat = "Low" -> 1 [] cat = "Medium" -> 2 [] cat = "High" -> 3
                             [] OTHER -> 2
        weighted_risk == SumSeq([i \in 1..Len(allocation) |->
                             risk_score(allocation[i].risk_category) * allocation[i].percentage])
    IN  IF weighted_risk < 150 THEN "Conservative"
        ELSE IF weighted_risk < 250 THEN "Moderate"
        ELSE "Aggressive"

\* portfolio_builder, the funds of the three risk queries, each tagged with
\* the risk it was queried for
CategorizedFunds(gw) ==
    Concat([i \in 1..Len(RiskCategories) |->
        LET funds == query_funds_by_risk_profile(RiskCategories[i], gw)
        IN  [j \in 1..Len(funds) |-> Put(funds[j], "risk_category", RiskCategories[i])]])

\* portfolio_builder, the fallback when the risk queries gave no fund: the
\* first 10 fund names
FallbackNames(gw) ==
    LET names == get_all_fund_names(gw)
    IN  SubSeq(names, 1, Min(10, Len(names)))

\* portfolio_builder, the fallback loop raises when a profile lookup raises
FallbackRaises(fallback_funds, gw) ==
    \E i \in 1..Len(fallback_funds) : _get_fund_complete_data(fallback_funds[i], gw) = Raise

\* portfolio_builder, the fallback loop: every profile, tagged Medium
FallbackFunds(fallback_funds, gw) ==
    [i \in 1..Len(fallback_funds) |->
        Put(_get_fund_complete_data(fallback_funds[i], gw), "risk_category", "Medium")]

\* tools.py portfolio_builder, the value returned.  Of the title only the
\* risk profile it names is kept, of total_investment only the value it
\* prints (in hundredths); the rationale and the rebalancing advice are left
\* out.
PortfolioResult(risk_profile, investment_amount, diversification_level, gw) ==
    LET categorized == CategorizedFunds(gw)
        raised      == categorized = <<>> /\ FallbackRaises(FallbackNames(gw), gw)
        all_funds   == IF categorized # <<>> THEN categorized
                       ELSE FallbackFunds(FallbackNames(gw), gw)
        allocation  == _create_portfolio_allocation(all_funds, risk_profile, diversification_level)
        investment_value == _parse_investment_amount(investment_amount)
        with_amounts == [i \in 1..Len(allocation) |->
                            Put(allocation[i], "amount",
                                RoundHalfEven(investment_value.v * allocation[i].percentage, 100))]
    IN  IF raised
        THEN [type |-> "error", message |-> "Portfolio building failed"]
        ELSE IF allocation = <<>>
        THEN [type |-> "error", message |-> "Unable to create portfolio allocation"]
        ELSE IF investment_value = Raise
        THEN [type |-> "error", message |-> "Portfolio building failed"]
        ELSE [type |-> "portfolio",
              title |-> risk_profile,
              total_investment |-> investment_value.v,
              diversification_level |-> diversification_level,
              allocation |-> with_amounts,
              chart_data |-> [i \in 1..Len(allocation) |->
                                 [name |-> allocation[i].fund_name,
                                  value |-> allocation[i].percentage]],
              expected_annual_return |-> _calculate_portfolio_return(with_amounts),
              portfolio_risk_score |-> _calculate_portfolio_risk(with_amounts)]

\* tools.py portfolio_builder
portfolio_builder(risk_profile, investment_amount, diversification_level, gw) ==
    /\ result' = PortfolioResult(risk_profile, investment_amount, diversification_level, gw)
    /\ fault' = gw
    /\ UNCHANGED <<index, leadVars, serverVars, upsertVars>>

(***************************************************************************)
(* Specification of the portfolio builder.                                 *)
(***************************************************************************)
PortfolioPool ==
    {Cells("Low", "", "0.5", "12.5%", ""),
     Cells("Medium", "100", "2", "-", ""),
     Cells("Medium", "100", "2", "-3", ""),
     Cells("High", "1,250", "3", "40", ""),
     Cells("Very High", "100", "3", "60", "")}

PortfolioRisks == {"Low", "Medium", "High", "Unknown"}

DiversificationLevels == {"conservative", "moderate", "aggressive"}

InvestmentAmounts == {"100,000", "PKR 33 to 50", "PKR ,"}

InitPortfolio ==
    /\ index \in {IndexOf(sheet) : sheet \in Sheets(PortfolioPool)}
    /\ fault = NoFault
    /\ result = NoResult
    /\ LeadAtRest /\ ServerAtRest /\ UpsertAtRest

PortfolioBuilder ==
    /\ result = NoResult
    /\ \E risk_profile \in PortfolioRisks, diversification_level \in DiversificationLevels,
          investment_amount \in InvestmentAmounts :
           portfolio_builder(risk_profile, investment_amount, diversification_level, NoFault)

\* a call during which the gateway is down or one point lookup fails
PortfolioBuilderFault ==
    /\ result = NoResult
    /\ \E risk_profile \in PortfolioRisks,
          gw \in {Down, LookupFault(FundNames[1], "365D")} :
           portfolio_builder(risk_profile, "one lakh", "moderate", gw)

NextPortfolio == PortfolioBuilder \/ PortfolioBuilderFault

SpecPortfolio == InitPortfolio /\ [][NextPortfolio]_vars

(***************************************************************************)
(* Fund screening (fund_screener).                                         *)
(***************************************************************************)
\* tools.py _meets_criteria.  criteria is a dict of the keys given, with
\* min_return and max_fee in hundredths.
_meets_criteria(fund_data, criteria) ==
    /\ "min_return" \in DOMAIN criteria
           => ~(OrDefault(_safe_float(Get(fund_data, "return_365d", Num(0))), 0)
                    < criteria["min_return"])
    /\ "max_fee" \in DOMAIN criteria
           => ~(OrDefault(_safe_float(Get(fund_data, "expense_ratio", Num(99900))), 99900)
                    > criteria["max_fee"])
    /\ "risk_profile" \in DOMAIN criteria
           => Get(fund_data, "risk_profile", None) = Str(criteria["risk_profile"])

\* tools.py _calculate_screening_score, in thousandths
_calculate_screening_score(fund_data, criteria) ==
    LET return_365d   == OrDefault(_safe_float(Get(fund_data, "return_365d", Num(0))), 0)
        expense_ratio == OrDefault(_safe_float(Get(fund_data, "expense_ratio", Num(500))), 500)
    IN  Max(return_365d * 4 + (500 - expense_ratio) * 100, 0)

\* tools.py _calculate_average, in hundredths: the mean of the values that
\* are not None, rounded to 2 places; 0 of no value
_calculate_average(values) ==
    LET clean_values == SelectSeq(values, LAMBDA v : v # None)
    IN  IF clean_values = <<>> THEN 0
        ELSE RoundHalfEven(SumSeq([i \in 1..Len(clean_values) |-> clean_values[i].v]),
                           Len(clean_values))

\* tools.py _get_risk_distribution
_get_risk_distribution(funds) ==
    [risk \in {"Low", "Medium", "High"} |->
        Cardinality({i \in 1..Len(funds) : Get(funds[i], "risk_profile", Str("Unknown")) = Str(risk)})]

\* fund_screener, a lookup of the screening loop raises
ScreeningRaises(all_funds, gw) ==
    \E i \in 1..Len(all_funds) : _get_fund_complete_data(all_funds[i], gw) = Raise

\* fund_screener, the screening loop: the profiles that meet the criteria,
\* each with its screening score
RECURSIVE FilteredFunds(_, _, _)
FilteredFunds(all_funds, criteria, gw) ==
    IF all_funds = <<>> THEN <<>>
    ELSE LET fund_data == _get_fund_complete_data(Head(all_funds), gw)
             rest      == FilteredFunds(Tail(all_funds), criteria, gw)
         IN  IF _meets_criteria(fund_data, criteria)
             THEN <<Put(fund_data, "screening_score",
                        _calculate_screening_score(fund_data, criteria))>> \o rest
             ELSE rest

\* f.get(key) is truthy: present, not None and not 0.0
Truthy(fund, key) == key \in DOMAIN fund /\ fund[key] # None /\ fund[key] # Num(0)

\* tools.py fund_screener, the value returned (title and next steps are left
\* out)
ScreeningResult(criteria, gw) ==
    LET all_funds      == get_all_fund_names(gw)
        filtered_funds == SortedDesc(FilteredFunds(all_funds, criteria, gw), "screening_score")
        returns        == SelectSeq(filtered_funds, LAMBDA f : Truthy(f, "return_365d"))
        expenses       == SelectSeq(filtered_funds, LAMBDA f : Truthy(f, "expense_ratio"))
    IN  IF ScreeningRaises(all_funds, gw)
        THEN [type |-> "error", message |-> "Fund screening failed"]
        ELSE [type |-> "fund_screening",
              criteria_applied |-> criteria,
              total_funds_screened |-> Len(all_funds),
              funds_matching |-> Len(filtered_funds),
              screened_funds |-> SubSeq(filtered_funds, 1, Min(10, Len(filtered_funds))),
              screening_summary |->
                  [avg_return_365d |-> _calculate_average(
                       [i \in 1..Len(returns) |-> _safe_float(returns[i]["return_365d"])]),
                   avg_expense_ratio |-> _calculate_average(
                       [i \in 1..Len(expenses) |-> _safe_float(expenses[i]["expense_ratio"])]),
                   risk_distribution |-> _get_risk_distribution(filtered_funds)]]

\* tools.py fund_screener
fund_screener(criteria, gw) ==
    /\ result' = ScreeningResult(criteria, gw)
    /\ fault' = gw
    /\ UNCHANGED <<index, leadVars, serverVars, upsertVars>>

(***************************************************************************)
(* Specification of the fund screener.                                     *)
(***************************************************************************)
ScreenPool ==
    {Cells("High", "100", "0", "35", ""),
     Cells("High", "100", "1.5", "30", ""),
     Cells("High", "100", "2", "80", ""),
     Cells("Medium", "100", "1", "12.5%", ""),
     Cells("Low", "100", "", "-", "")}

\* a dict of the items of d whose keys are in keys
Restrict(d, keys) == [k \in keys |-> d[k]]

\* the criteria dicts: every subset of the three keys
ScreenCriteria ==
    {Restrict([min_return |-> 3000, max_fee |-> 150, risk_profile |-> "High"], keys) :
        keys \in SUBSET {"min_return", "max_fee", "risk_profile"}}

InitScreen ==
    /\ index \in {IndexOf(sheet) : sheet \in Sheets(ScreenPool)}
    /\ fault = NoFault
    /\ result = NoResult
    /\ LeadAtRest /\ ServerAtRest /\ UpsertAtRest

FundScreener ==
    /\ result = NoResult
    /\ \E criteria \in ScreenCriteria : fund_screener(criteria, NoFault)

\* a screening during which the gateway is down or one point lookup fails
FundScreenerFault ==
    /\ result = NoResult
    /\ \E gw \in {Down, LookupFault(FundNames[2], "365D"),
                  LookupFault(FundNames[1], "Total Expense Ratio")} :
           fund_screener(Restrict([min_return |-> 3000], {}), gw)

NextScreen == FundScreener \/ FundScreenerFault

SpecScreen == InitScreen /\ [][NextScreen]_vars

(***************************************************************************)
(* Market insights (market_insights).                                      *)
(***************************************************************************)
\* market_insights, the loop over the fund names raises when a profile
\* lookup raises
ProfilesRaise(all_funds, gw) ==
    \E i \in 1..Len(all_funds) : _get_fund_complete_data(all_funds[i], gw) = Raise

\* market_insights, the loop over the fund names: the profile of every name
FundProfiles(all_funds, gw) ==
    [i \in 1..Len(all_funds) |-> _get_fund_complete_data(all_funds[i], gw)]

\* the normalized value of a field, the float `default` when the key is
\* absent; None when the value recorded does not normalize
Field(f, key, default) == _safe_float(Get(f, key, Num(default)))

\* _generate_market_alerts raises: a comparison of None with a number is a
\* TypeError
AlertsRaise(fund_performance) ==
    \E i \in 1..Len(fund_performance) :
        \/ Field(fund_performance[i], "return_365d", 0) = None
        \/ Field(fund_performance[i], "expense_ratio", 500) = None

\* tools.py _generate_market_alerts: each alert by its kind and the number
\* its text carries
_generate_market_alerts(fund_performance) ==
    LET high_performers == SelectSeq(fund_performance,
                               LAMBDA f : Field(f, "return_365d", 0).v > 5000)
        low_fee_funds   == SelectSeq(fund_performance,
                               LAMBDA f : Field(f, "expense_ratio", 500).v < 75)
        high_risk       == SelectSeq(fund_performance,
                               LAMBDA f : Get(f, "risk_profile", None) = Str("High"))
        high_risk_avg   == _calculate_average(
                               [i \in 1..Len(high_risk) |-> Field(high_risk[i], "return_365d", 0)])
        alerts == (IF high_performers # <<>>
                   THEN <<[alert |-> "high_performers", n |-> Len(high_performers)]>> ELSE <<>>)
               \o (IF low_fee_funds # <<>>
                   THEN <<[alert |-> "low_fee_funds", n |-> Len(low_fee_funds)]>> ELSE <<>>)
               \o (IF high_risk_avg > 6000
                   THEN <<[alert |-> "high_risk_avg", n |-> high_risk_avg]>> ELSE <<>>)
    IN  SubSeq(alerts, 1, Min(5, Len(alerts)))

\* tools.py _find_top_performers
_find_top_performers(fund_performance) ==
    LET keys == [i \in 1..Len(fund_performance) |->
                    OrDefault(Field(fund_performance[i], "return_365d", 0), 0)]
        order == SortedDescOrder(keys, Len(keys))
    IN  [i \in 1..Min(3, Len(order)) |->
            LET fund == fund_performance[order[i]]
            IN  [name         |-> fund.name,
                 return_365d  |-> _safe_float(Get(fund, "return_365d", None)),
                 risk_profile |-> Get(fund, "risk_profile", None)]]

\* _identify_opportunities raises: `a > 20 and b < 1.5` compares the
\* expense ratio only for a return above 20
OpportunitiesRaise(fund_performance) ==
    \E i \in 1..Len(fund_performance) :
        LET return_365d == Field(fund_performance[i], "return_365d", 0)
        IN  \/ return_365d = None
            \/ return_365d.v > 2000 /\ Field(fund_performance[i], "expense_ratio", 500) = None

\* tools.py _identify_opportunities
_identify_opportunities(fund_performance) ==
    LET good_value_funds == SelectSeq(fund_performance, LAMBDA f :
                                /\ Field(f, "return_365d", 0).v > 2000
                                /\ Field(f, "expense_ratio", 500).v < 150)
        stable_performers == SelectSeq(fund_performance, LAMBDA f :
                                /\ Get(f, "risk_profile", None) = Str("Low")
                                /\ Field(f, "return_365d", 0).v > 1000)
    IN  (IF good_value_funds # <<>>
         THEN <<[opportunity |-> "good_value_funds", n |-> Len(good_value_funds)]>> ELSE <<>>)
     \o (IF stable_performers # <<>>
         THEN <<[opportunity |-> "stable_performers", n |-> Len(stable_performers)]>> ELSE <<>>)

\* tools.py _analyze_market_trends: the average return (hundredths) of each
\* risk category that has a fund, keyed by the category
_analyze_market_trends(fund_performance) ==
    LET of(risk) == SelectSeq(fund_performance,
                        LAMBDA f : Get(f, "risk_profile", Str("Medium")) = Str(risk))
    IN  [risk \in {r \in {"Low", "Medium", "High"} : of(r) # <<>>} |->
            RoundHalfEven(SumSeq([i \in 1..Len(of(risk)) |->
                              OrDefault(Field(of(risk)[i], "return_365d", 0), 0)]),
                          Len(of(risk)))]

\* tools.py _get_market_summary
_get_market_summary(insights) ==
    IF Len(insights.alerts) > 3 /\ Len(insights.opportunities) > 2 THEN "Active market"
    ELSE IF Len(insights.opportunities) > 2 THEN "Several opportunities"
    ELSE "Stable market"

\* tools.py _get_action_items
_get_action_items(insights) ==
    (IF Len(insights.opportunities) > 0 THEN <<"Review opportunities">> ELSE <<>>)
 \o (IF Len(insights.alerts) > 2 THEN <<"Monitor alerts">> ELSE <<>>)
 \o <<"Consider rebalancing">>

\* market_insights, the four analyses of the profiles
Insights(fund_performance) ==
    [alerts         |-> _generate_market_alerts(fund_performance),
     top_performers |-> _find_top_performers(fund_performance),
     opportunities  |-> _identify_opportunities(fund_performance),
     market_trends  |-> _analyze_market_trends(fund_performance)]

\* market_insights, the chart of the first 5 top performers
InsightsChart(top5) ==
    [xAxis |-> [i \in 1..Len(top5) |-> top5[i].name],
     data  |-> [i \in 1..Len(top5) |-> top5[i].return_365d]]

\* market_insights, the value returned for the analyses (title and
\* timestamp are left out)
InsightsReport(insights) ==
    [type |-> "market_insights",
     insights |-> insights,
     chart_data |-> InsightsChart(SubSeq(insights.top_performers, 1,
                                         Min(5, Len(insights.top_performers)))),
     summary |-> _get_market_summary(insights),
     action_items |-> _get_action_items(insights)]

\* market_insights, the value returned for the profiles of the funds
InsightsOfProfiles(fund_performance) ==
    IF AlertsRaise(fund_performance) \/ OpportunitiesRaise(fund_performance)
    THEN [type |-> "error", message |-> "Market insights failed"]
    ELSE InsightsReport(Insights(fund_performance))

\* market_insights, the value returned for the fund names
InsightsOfNames(all_funds, gw) ==
    IF ProfilesRaise(all_funds, gw)
    THEN [type |-> "error", message |-> "Market insights failed"]
    ELSE InsightsOfProfiles(FundProfiles(all_funds, gw))

\* tools.py market_insights, the value returned
InsightsResult(gw) == InsightsOfNames(get_all_fund_names(gw), gw)

\* tools.py market_insights
market_insights(gw) ==
    /\ result' = InsightsResult(gw)
    /\ fault' = gw
    /\ UNCHANGED <<index, leadVars, serverVars, upsertVars>>

(***************************************************************************)
(* Opportunity scan (opportunity_scanner).                                 *)
(***************************************************************************)
\* tools.py _calculate_opportunity_score, in thousandths
_calculate_opportunity_score(fund_data) ==
    LET return_365d   == OrDefault(Field(fund_data, "return_365d", 0), 0)
        expense_ratio == OrDefault(Field(fund_data, "expense_ratio", 500), 500)
        return_ytd    == OrDefault(Field(fund_data, "return_ytd", 0), 0)
        score         == return_365d * 6 + (500 - expense_ratio) * 150 + return_ytd * 4
    IN  Max(0, Min(100000, score))

\* tools.py _get_opportunity_reason
_get_opportunity_reason(fund_data) ==
    LET return_365d   == OrDefault(Field(fund_data, "return_365d", 0), 0)
        expense_ratio == OrDefault(Field(fund_data, "expense_ratio", 500), 500)
    IN  IF return_365d > 5000 /\ expense_ratio < 150 THEN "Exceptional returns"
        ELSE IF return_365d > 3000 THEN "Strong annual performance"
        ELSE IF expense_ratio < 75 THEN "Low-cost"
        ELSE "Balanced"

\* tools.py _get_alert_level
_get_alert_level(opportunity_count) ==
    IF opportunity_count >= 5 THEN "HIGH"
    ELSE IF opportunity_count >= 3 THEN "MEDIUM"
    ELSE "LOW"

\* opportunity_scanner, the body of the loop over the fund names, once the
\* score is known: the profile with its score and reason when it has the
\* risk profile asked for and a score above 70, else nothing
ScoredOpportunity(fund_data, risk_profile, opportunity_score) ==
    IF Get(fund_data, "risk_profile", None) = Str(risk_profile) /\ opportunity_score > 70000
    THEN <<Put(Put(fund_data, "opportunity_score", opportunity_score),
               "opportunity_reason", _get_opportunity_reason(fund_data))>>
    ELSE <<>>

\* opportunity_scanner, the body of the loop over the fund names
Opportunity(fund_data, risk_profile) ==
    ScoredOpportunity(fund_data, risk_profile, _calculate_opportunity_score(fund_data))

\* opportunity_scanner, the loop over the fund names
RECURSIVE Opportunities(_, _, _)
Opportunities(all_funds, risk_profile, gw) ==
    IF all_funds = <<>> THEN <<>>
    ELSE Opportunity(_get_fund_complete_data(Head(all_funds), gw), risk_profile)
             \o Opportunities(Tail(all_funds), risk_profile, gw)

\* opportunity_scanner, the value returned for the sorted opportunities
\* (title, market timing texts and next action are left out)
ScanReport(total_funds_scanned, opportunities, risk_profile) ==
    [type |-> "opportunity_scan",
     scan_results |-> [total_funds_scanned |-> total_funds_scanned,
                       opportunities_found |-> Len(opportunities),
                       risk_filter         |-> risk_profile],
     opportunities |-> SubSeq(opportunities, 1, Min(5, Len(opportunities))),
     alert_level |-> _get_alert_level(Len(opportunities))]

\* opportunity_scanner, the value returned for the fund names
ScanOfNames(all_funds, risk_profile, gw) ==
    IF ProfilesRaise(all_funds, gw)
    THEN [type |-> "error", message |-> "Opportunity scan failed"]
    ELSE ScanReport(Len(all_funds),
                    SortedDesc(Opportunities(all_funds, risk_profile, gw), "opportunity_score"),
                    risk_profile)

\* tools.py opportunity_scanner, the value returned
ScanResult(risk_profile, gw) == ScanOfNames(get_all_fund_names(gw), risk_profile, gw)

\* tools.py opportunity_scanner
opportunity_scanner(risk_profile, gw) ==
    /\ result' = ScanResult(risk_profile, gw)
    /\ fault' = gw
    /\ UNCHANGED <<index, leadVars, serverVars, upsertVars>>

(***************************************************************************)
(* Fee analysis (fee_optimizer).                                           *)
(***************************************************************************)
\* sub in s, for Python str
Contains(s, sub) ==
    \E i \in 1..(Len(s) - Len(sub) + 1) : SubSeq(s, i, i + Len(sub) - 1) = sub

\* re.findall(r'\d+', s)[0]: the first maximal run of digits, "" when there
\* is none
FirstDigitRun(s) ==
    LET isDigit(i) == Char(s, i) \in Digits
    IN  IF \A i \in 1..Len(s) : ~isDigit(i) THEN ""
        ELSE LET first == CHOOSE i \in 1..Len(s) : isDigit(i) /\ \A j \in 1..(i - 1) : ~isDigit(j)
                 last  == CHOOSE k \in first..Len(s) :
                              /\ \A j \in first..k : isDigit(j)
                              /\ k = Len(s) \/ ~isDigit(k + 1)
             IN  SubSeq(s, first, last)

\* tools.py _parse_holding_period: years
_parse_holding_period(period_str) ==
    LET run == FirstDigitRun(period_str)
    IN  IF run = "" THEN 5
        ELSE IF Contains(Lower(period_str), "month") THEN Max(1, DigitsValue(run) \div 12)
        ELSE DigitsValue(run)

\* tools.py _categorize_fee_level
_categorize_fee_level(expense_ratio) ==
    IF expense_ratio = None THEN "Unknown"
    ELSE IF expense_ratio.v < 75 THEN "Low"
    ELSE IF expense_ratio.v < 150 THEN "Moderate"
    ELSE "High"

\* base + n / d rounded to the nearest integer, ties to even (d > 0)
RoundHalfEvenFrom(base, n, d) ==
    LET q == n \div d
        r == n % d
    IN  IF 2 * r > d \/ (2 * r = d /\ (base + q) % 2 = 1) THEN base + q + 1 ELSE base + q

\* fee_optimizer, the entry of one fund for its normalized expense ratio
\* ter.  investment_value (hundredths) is a whole number of rupees and ter is
\* in hundredths of a percent, so annual_fee and total_fees are in
\* ten-thousandths.
FeeEntryOf(fund_data, ter, investment_value, annual_fee, total_fees) ==
    [fund_name           |-> fund_data.name,
     risk_profile        |-> Get(fund_data, "risk_profile", Str("Unknown")),
     total_expense_ratio |-> ter,
     annual_fee          |-> RoundHalfEven(annual_fee, 100),
     total_fees          |-> RoundHalfEven(total_fees, 100),
     fee_category        |-> _categorize_fee_level(ter),
     value_after_fees    |-> RoundHalfEvenFrom(investment_value, 0 - total_fees, 100)]

\* fee_optimizer, the annual fee, in ten-thousandths: 0 without an expense
\* ratio
AnnualFee(ter, investment_value) ==
    IF ter = None \/ ter.v = 0 THEN 0 ELSE (investment_value \div 100) * ter.v

\* fee_optimizer, the entry of one fund once its expense ratio is normalized
FeeEntryWith(fund_data, ter, investment_value, years) ==
    FeeEntryOf(fund_data, ter, investment_value, AnnualFee(ter, investment_value),
               AnnualFee(ter, investment_value) * years)

\* fee_optimizer, the entry of one fund
FeeEntry(fund_data, investment_value, years) ==
    FeeEntryWith(fund_data, _safe_float(Get(fund_data, "expense_ratio", Num(0))),
                 investment_value, years)

\* list.sort(key=...) as the order of the indices 1..n of `keys`: ascending,
\* equal keys in their original order
RECURSIVE SortedAscOrder(_, _)
SortedAscOrder(keys, n) ==
    IF n = 0 THEN <<>>
    ELSE LET prev == SortedAscOrder(keys, n - 1)
             pos  == Cardinality({i \in 1..Len(prev) : keys[prev[i]] <= keys[n]})
         IN  SubSeq(prev, 1, pos) \o <<n>> \o SubSeq(prev, pos + 1, Len(prev))

\* fee_optimizer, the entries in the order given
Reordered(entries, order) == [i \in 1..Len(entries) |-> entries[order[i]]]

\* fee_optimizer, fee_analysis.sort(key=lambda x: x["total_fees"])
SortedByFees(entries) ==
    Reordered(entries, SortedAscOrder([i \in 1..Len(entries) |-> entries[i].total_fees],
                                      Len(entries)))

\* fee_optimizer, the value returned for the sorted entries, n of them
\* (title and tips are left out)
FeeReport(fee_analysis, n, investment_value, holding_period, years) ==
    [type |-> "fee_analysis",
     investment_details |-> [amount         |-> investment_value,
                             holding_period |-> holding_period,
                             years          |-> years],
     lowest_fee_funds  |-> SubSeq(fee_analysis, 1, Min(5, n)),
     highest_fee_funds |-> SubSeq(fee_analysis, Max(1, n - 4), n),
     fee_comparison_chart |->
         [i \in 1..Min(10, n) |-> [fund |-> fee_analysis[i].fund_name,
                                   fees |-> fee_analysis[i].total_fees]],
     savings_potential |->
         [lowest_fee        |-> fee_analysis[1].total_fees,
          highest_fee       |-> fee_analysis[n].total_fees,
          potential_savings |-> fee_analysis[n].total_fees - fee_analysis[1].total_fees]]

\* fee_optimizer, the entries of the funds in the order of the names
FeeEntries(all_funds, investment_value, years, gw) ==
    [i \in 1..Len(all_funds) |->
        FeeEntry(_get_fund_complete_data(all_funds[i], gw), investment_value, years)]

\* fee_optimizer, the value returned for the fund names and the amount
\* parsed.  fee_analysis[0] of an empty list is an IndexError.
FeeOfNames(all_funds, investment_value, holding_period, years, gw) ==
    IF investment_value = Raise \/ ProfilesRaise(all_funds, gw) \/ all_funds = <<>>
    THEN [type |-> "error", message |-> "Fee analysis failed"]
    ELSE FeeReport(SortedByFees(FeeEntries(all_funds, investment_value.v, years, gw)),
                   Len(all_funds), investment_value.v, holding_period, years)

\* tools.py fee_optimizer, the value returned
FeeResult(investment_amount, holding_period, gw) ==
    FeeOfNames(get_all_fund_names(gw), _parse_investment_amount(investment_amount),
               holding_period, _parse_holding_period(holding_period), gw)

\* tools.py fee_optimizer
fee_optimizer(investment_amount, holding_period, gw) ==
    /\ result' = FeeResult(investment_amount, holding_period, gw)
    /\ fault' = gw
    /\ UNCHANGED <<index, leadVars, serverVars, upsertVars>>

(***************************************************************************)
(* Specification of the tools over the whole fund universe.                *)
(***************************************************************************)
\* "--" and "TBD" are cells the upserter stores as they are and that
\* normalize to None
UniversePool ==
    {Cells("High", "100", "0.5", "80", "20"),
     Cells("High", "100", "--", "35", ""),
     Cells("Medium", "100", "1", "TBD", "5"),
     Cells("Low", "100", "2", "12.5%", ""),
     Cells("Low", "100", "", "-", "")}

InitUniverse ==
    /\ index \in {IndexOf(sheet) : sheet \in Sheets(UniversePool)}
    /\ fault = NoFault
    /\ result = NoResult
    /\ LeadAtRest /\ ServerAtRest /\ UpsertAtRest

\* the conditions of the gateway during a call over the universe
UniverseFaults == {NoFault, Down, LookupFault(FundNames[1], "365D")}

MarketInsights ==
    /\ result = NoResult
    /\ \E gw \in UniverseFaults : market_insights(gw)

OpportunityScanner ==
    /\ result = NoResult
    /\ \/ \E risk_profile \in {"High", "Medium", "Low"} : opportunity_scanner(risk_profile, NoFault)
       \/ \E gw \in UniverseFaults : opportunity_scanner("Medium", gw)

FeeOptimizer ==
    /\ result = NoResult
    /\ \/ \E investment_amount \in {"100,000", "PKR 33"}, holding_period \in {"18 months", "3 years"} :
              fee_optimizer(investment_amount, holding_period, NoFault)
       \/ \E gw \in UniverseFaults : fee_optimizer("one lakh", "long", gw)

NextUniverse == MarketInsights \/ OpportunityScanner \/ FeeOptimizer

SpecUniverse == InitUniverse /\ [][NextUniverse]_vars

(***************************************************************************)
(* Correlation analysis (correlation_analyzer).                            *)
(***************************************************************************)
Abs(x) == IF x < 0 THEN 0 - x ELSE x

\* a correlation computed from the signed difference of the two returns
_calculate_correlation_signed(fund1_data, fund2_data) ==
    LET risk1   == Get(fund1_data, "risk_profile", Str("Medium"))
        risk2   == Get(fund2_data, "risk_profile", Str("Medium"))
        return1 == OrDefault(Field(fund1_data, "return_365d", 0), 0)
        return2 == OrDefault(Field(fund2_data, "return_365d", 0), 0)
        correlation == IF risk1 = risk2
                       THEN 70000 - 4 * (return1 - return2)
                       ELSE 30000 - 2 * (return1 - return2)
    IN  Max(0 - 100000, Min(100000, correlation))

\* tools.py _calculate_correlation, in hundred-thousandths: with returns in
\* hundredths, abs(return1 - return2) / 100 * -0.4 is -4 per hundredth
_calculate_correlation(fund1_data, fund2_data) ==
    LET risk1   == Get(fund1_data, "risk_profile", Str("Medium"))
        risk2   == Get(fund2_data, "risk_profile", Str("Medium"))
        return1 == OrDefault(Field(fund1_data, "return_365d", 0), 0)
        return2 == OrDefault(Field(fund2_data, "return_365d", 0), 0)
        correlation == IF risk1 = risk2
                       THEN 70000 - 4 * Abs(return1 - return2)
                       ELSE 30000 - 2 * Abs(return1 - return2)
    IN  Max(0 - 100000, Min(100000, correlation))

\* tools.py _interpret_correlation
_interpret_correlation(correlation) ==
    IF correlation > 70000 THEN "High positive correlation"
    ELSE IF correlation > 30000 THEN "Moderate positive correlation"
    ELSE IF correlation < 0 - 30000 THEN "Negative correlation"
    ELSE "Low correlation"

\* correlation_analyzer, the guard on the number of names
TooFewFunds_one(fund_names) == Len(fund_names) < 1

\* correlation_analyzer, the guard on the number of names
TooFewFunds(fund_names) == Len(fund_names) < 2

\* correlation_analyzer, one entry of a row
CorrelationEntry(fund2, correlation) ==
    [with_fund      |-> fund2,
     correlation    |-> correlation,
     interpretation |-> _interpret_correlation(correlation)]

\* correlation_analyzer, the row of fund1: its correlation with every name
\* of the list, in order
CorrelationRow(fund1, fund_names, gw) ==
    [fund |-> fund1,
     correlations |->
         [j \in 1..Len(fund_names) |->
             CorrelationEntry(fund_names[j],
                              _calculate_correlation(_get_fund_complete_data(fund1, gw),
                                                     _get_fund_complete_data(fund_names[j], gw)))]]

\* the correlations of the matrix between two different names, row by row
CorrelationPairs(correlation_matrix) ==
    Concat([i \in 1..Len(correlation_matrix) |->
        LET row   == correlation_matrix[i]
            other == SelectSeq(row.correlations, LAMBDA corr : corr.with_fund # row.fund)
        IN  [j \in 1..Len(other) |-> [fund1       |-> row.fund,
                                      fund2       |-> other[j].with_fund,
                                      correlation |-> other[j].correlation]]])

\* tools.py _calculate_diversification_score, in hundredths: (1 - the mean
\* of the absolute correlations between different names) * 100, rounded to
\* 2 places; 50.0 without such a pair
_calculate_diversification_score(correlation_matrix) ==
    LET pairs == CorrelationPairs(correlation_matrix)
        total == SumSeq([i \in 1..Len(pairs) |-> Abs(pairs[i].correlation)])
    IN  IF pairs = <<>> THEN 5000
        ELSE RoundHalfEven(100000 * Len(pairs) - total, 10 * Len(pairs))

\* tools.py _get_diversification_recommendation
_get_diversification_recommendation(score) ==
    IF score >= 7000 THEN "Excellent diversification"
    ELSE IF score >= 5000 THEN "Good diversification"
    ELSE "Limited diversification"

\* correlation_analyzer, the chart of the correlations between different
\* names
CorrelationChart(correlation_pairs) ==
    [xAxis |-> [i \in 1..Len(correlation_pairs) |->
                   <<correlation_pairs[i].fund1, correlation_pairs[i].fund2>>],
     data  |-> [i \in 1..Len(correlation_pairs) |-> Abs(correlation_pairs[i].correlation)]]

\* correlation_analyzer, the value returned for the matrix and its score
\* (title, insight texts and portfolio balance text are left out)
CorrelationReport(correlation_matrix, diversification_score) ==
    [type |-> "correlation_analysis",
     correlation_matrix |-> correlation_matrix,
     chart_data |-> CorrelationChart(CorrelationPairs(correlation_matrix)),
     diversification_score |-> diversification_score,
     recommendation |-> _get_diversification_recommendation(diversification_score)]

\* correlation_analyzer, the value returned for the matrix
CorrelationOfMatrix(correlation_matrix) ==
    CorrelationReport(correlation_matrix, _calculate_diversification_score(correlation_matrix))

\* correlation_analyzer, the matrix: one row for every name, in order
CorrelationMatrix(fund_names, gw) ==
    [i \in 1..Len(fund_names) |-> CorrelationRow(fund_names[i], fund_names, gw)]

\* tools.py correlation_analyzer, the value returned
CorrelationResult(fund_names, gw) ==
    IF TooFewFunds(fund_names)
    THEN [type |-> "error", message |-> "Need at least 2 funds for correlation analysis"]
    ELSE IF ProfilesRaise(fund_names, gw)
    THEN [type |-> "error", message |-> "Correlation analysis failed"]
    ELSE CorrelationOfMatrix(CorrelationMatrix(fund_names, gw))

\* tools.py correlation_analyzer.  The names of the call are kept with the
\* value returned.
correlation_analyzer(fund_names, gw) ==
    /\ result' = Put(CorrelationResult(fund_names, gw), "fund_names", fund_names)
    /\ fault' = gw
    /\ UNCHANGED <<index, leadVars, serverVars, upsertVars>>

(***************************************************************************)
(* Specification of the correlation analyzer.                              *)
(***************************************************************************)
CorrelationPool ==
    {Cells("High", "100", "1", "80", ""),
     Cells("High", "100", "1", "-10", ""),
     Cells("Medium", "100", "1", "700", ""),
     Cells("Medium", "100", "1", "-", ""),
     Cells("", "100", "1", "5", "")}

\* the names asked for: two names of the sheet and one that is never in it
RequestedNames == {FundNames[1], FundNames[2], "JBS Gold Fund"}

\* the lists of names of the calls: every list of at most 2 names, and two
\* lists of 3
NameLists ==
    UNION {[1..n -> RequestedNames] : n \in 0..2}
        \cup {<<FundNames[1], FundNames[2], FundNames[3]>>,
              <<FundNames[2], "JBS Gold Fund", FundNames[1]>>}

InitCorrelation ==
    /\ index \in {IndexOf(sheet) : sheet \in Sheets(CorrelationPool)}
    /\ fault = NoFault
    /\ result = NoResult
    /\ LeadAtRest /\ ServerAtRest /\ UpsertAtRest

CorrelationAnalyzer ==
    /\ result = NoResult
    /\ \E fund_names \in NameLists : correlation_analyzer(fund_names, NoFault)

\* a call during which the gateway is down or one point lookup fails
CorrelationAnalyzerFault ==
    /\ result = NoResult
    /\ \E fund_names \in {<<>>, <<FundNames[1]>>, <<FundNames[1], FundNames[2]>>},
          gw \in {Down, LookupFault(FundNames[1], "365D")} :
           correlation_analyzer(fund_names, gw)

NextCorrelation == CorrelationAnalyzer \/ CorrelationAnalyzerFault

SpecCorrelation == InitCorrelation /\ [][NextCorrelation]_vars

(***************************************************************************)
(* Consistency analysis (consistency_analyzer).  With n returns r in       *)
(* hundredths, S their sum and D = n * sum(d^2) - sum(d)^2 for d = r - r[1],*)
(* the mean is S / n, the standard deviation sqrt(D) / n and the score      *)
(* (S - sqrt(4 * D)) / n.  The returns of a fund are taken close enough     *)
(* together for 16 * D to stay below 2^31.                                  *)
(***************************************************************************)
\* the greatest integer whose square is at most x, between lo and hi
RECURSIVE FloorSqrtIn(_, _, _)
FloorSqrtIn(x, lo, hi) ==
    IF lo = hi THEN lo
    ELSE LET mid == (lo + hi + 1) \div 2
         IN  IF mid * mid <= x THEN FloorSqrtIn(x, mid, hi) ELSE FloorSqrtIn(x, lo, mid - 1)

FloorSqrt(x) == FloorSqrtIn(x, 0, 46340)

CeilSqrt(x) == LET f == FloorSqrt(x) IN IF f * f = x THEN f ELSE f + 1

\* _calculate_consistency_score, the periods looked up, in order
Periods == <<"30D", "90D", "180D", "365D">>

\* _calculate_consistency_score, a lookup of the loop raises
PeriodLookupRaises(fund_name, gw) ==
    \E i \in 1..Len(Periods) : QueryRaises([fund_name |-> fund_name, column |-> Periods[i]], gw)

\* _calculate_consistency_score, the loop over the periods: the values that
\* normalize to a number, in hundredths
RECURSIVE PeriodReturns(_, _)
PeriodReturns(fund_name, periods) ==
    IF periods = <<>> THEN <<>>
    ELSE LET matches == Query([fund_name |-> fund_name, column |-> Head(periods)], 1)
             value   == _safe_float(MetaGet(matches[1], "value"))
             rest    == PeriodReturns(fund_name, Tail(periods))
         IN  IF matches # <<>> /\ value # None THEN <<value.v>> \o rest ELSE rest

\* n^2 times the population variance of the returns
ScaledVariance(returns) ==
    LET d == [i \in 1..Len(returns) |-> returns[i] - returns[1]]
    IN  Len(returns) * SumSeq([i \in 1..Len(d) |-> d[i] * d[i]]) - SumSeq(d) * SumSeq(d)

\* mean_return - std_dev * 2 >= threshold (hundredths)
ScoreAtLeast(returns, threshold) ==
    LET x == SumSeq(returns) - Len(returns) * threshold
    IN  x >= 0 /\ (x > 46340 \/ x * x >= 4 * ScaledVariance(returns))

\* round(max(0, min(100, mean_return - std_dev * 2)), 2), in hundredths
RoundedScore(returns) ==
    LET n == Len(returns)
        S == SumSeq(returns)
        D == ScaledVariance(returns)
        k == (S - CeilSqrt(4 * D)) \div n
        m == 2 * S - n * (2 * k + 1)
    IN  IF ScoreAtLeast(returns, 10000) THEN 10000
        ELSE IF ~ScoreAtLeast(returns, 0) THEN 0
        ELSE IF m >= 0 /\ (m * m > 16 * D \/ (m * m = 16 * D /\ k % 2 = 1)) THEN k + 1
        ELSE k

\* round(std_dev, 2), in hundredths
RoundedVolatility(returns) ==
    LET n == Len(returns)
        D == ScaledVariance(returns)
        v == FloorSqrt(D) \div n
        m == n * (2 * v + 1)
    IN  IF 4 * D > m * m \/ (4 * D = m * m /\ v % 2 = 1) THEN v + 1 ELSE v

\* tools.py _get_consistency_rating, of max(0, min(100, mean - 2 * std_dev))
\* before it is rounded
_get_consistency_rating(returns) ==
    IF ScoreAtLeast(returns, 8000) THEN "Highly Consistent"
    ELSE IF ScoreAtLeast(returns, 6000) THEN "Moderately Consistent"
    ELSE IF ScoreAtLeast(returns, 4000) THEN "Variable"
    ELSE "Highly Variable"

\* _calculate_consistency_score, the value returned for the values found,
\* were 2 of them enough
ScoreOfReturns_two(fund_name, returns) ==
    IF Len(returns) < 2 THEN None
    ELSE [fund_name         |-> fund_name,
          consistency_score |-> RoundedScore(returns),
          mean_return       |-> RoundHalfEven(SumSeq(returns), Len(returns)),
          volatility        |-> RoundedVolatility(returns),
          rating            |-> _get_consistency_rating(returns)]

\* _calculate_consistency_score, the value returned for the values found:
\* None below 3 values, else the record of the fund
ScoreOfReturns(fund_name, returns) ==
    IF Len(returns) < 3 THEN None
    ELSE [fund_name         |-> fund_name,
          consistency_score |-> RoundedScore(returns),
          mean_return       |-> RoundHalfEven(SumSeq(returns), Len(returns)),
          volatility        |-> RoundedVolatility(returns),
          rating            |-> _get_consistency_rating(returns)]

\* tools.py _calculate_consistency_score: None, a record, or Raise
_calculate_consistency_score(fund_name, gw) ==
    IF PeriodLookupRaises(fund_name, gw) THEN Raise
    ELSE ScoreOfReturns(fund_name, PeriodReturns(fund_name, Periods))

\* tools.py _get_consistency_recommendation
_get_consistency_recommendation(data) ==
    IF data = <<>> THEN "Unable to analyze consistency"
    ELSE IF data[1].consistency_score >= 8000 THEN "excellent consistency"
    ELSE IF data[1].consistency_score >= 6000 THEN "balanced consistency"
    ELSE "Consider diversification"

\* consistency_analyzer, the loop over the names: the records of the funds
\* that have one
RECURSIVE ConsistencyData(_, _)
ConsistencyData(fund_names, gw) ==
    IF fund_names = <<>> THEN <<>>
    ELSE LET fund_analysis == _calculate_consistency_score(Head(fund_names), gw)
             rest          == ConsistencyData(Tail(fund_names), gw)
         IN  IF fund_analysis # None THEN <<fund_analysis>> \o rest ELSE rest

\* consistency_analyzer, the value returned for the sorted records (title
\* and insight texts are left out)
ConsistencyRanking(consistency_data) ==
    [type |-> "consistency_analysis",
     funds_analyzed |-> Len(consistency_data),
     consistency_ranking |-> consistency_data,
     chart_data |-> [xAxis |-> [i \in 1..Len(consistency_data) |-> consistency_data[i].fund_name],
                     data  |-> [i \in 1..Len(consistency_data) |->
                                   consistency_data[i].consistency_score]],
     recommendation |-> _get_consistency_recommendation(consistency_data)]

\* tools.py consistency_analyzer, the value returned
ConsistencyResult(fund_names, gw) ==
    IF \E i \in 1..Len(fund_names) : PeriodLookupRaises(fund_names[i], gw)
    THEN [type |-> "error", message |-> "Consistency analysis failed"]
    ELSE ConsistencyRanking(SortedDesc(ConsistencyData(fund_names, gw), "consistency_score"))

\* tools.py consistency_analyzer.  The names of the call are kept with the
\* value returned.
consistency_analyzer(fund_names, gw) ==
    /\ result' = Put(ConsistencyResult(fund_names, gw), "fund_names", fund_names)
    /\ fault' = gw
    /\ UNCHANGED <<index, leadVars, serverVars, upsertVars>>

(***************************************************************************)
(* Specification of the consistency analyzer.                              *)
(***************************************************************************)
PeriodCells(r30, r90, r180, r365) ==
    [c \in {"30D", "90D", "180D", "365D"} |->
        CASE c = "30D" -> r30 [] c = "90D" -> r90 [] c = "180D" -> r180 [] c = "365D" -> r365]

ConsistencyPool ==
    {PeriodCells("80.15", "80.15", "80.4", ""),
     PeriodCells("10", "12", "-", ""),
     PeriodCells("90", "90", "90", "90"),
     PeriodCells("5", "10", "-5", "abc"),
     PeriodCells("150", "150%", "150", "150")}

InitConsistency ==
    /\ index \in {IndexOf(sheet) : sheet \in Sheets(ConsistencyPool)}
    /\ fault = NoFault
    /\ result = NoResult
    /\ LeadAtRest /\ ServerAtRest /\ UpsertAtRest

ConsistencyAnalyzer ==
    /\ result = NoResult
    /\ \E fund_names \in NameLists : consistency_analyzer(fund_names, NoFault)

\* a call during which the gateway is down or one point lookup fails
ConsistencyAnalyzerFault ==
    /\ result = NoResult
    /\ \E fund_names \in {<<>>, <<FundNames[2], FundNames[1]>>},
          gw \in {Down, LookupFault(FundNames[1], "365D")} :
           consistency_analyzer(fund_names, gw)

NextConsistency == ConsistencyAnalyzer \/ ConsistencyAnalyzerFault

SpecConsistency == InitConsistency /\ [][NextConsistency]_vars

(***************************************************************************)
(* Performance analysis and its fuzzy matcher (performance_analyzer).      *)
(***************************************************************************)
\* s.replace(old, new): the occurrences of old from left to right
RECURSIVE Replace(_, _, _)
Replace(s, old, new) ==
    IF Len(s) < Len(old) THEN s
    ELSE IF SubSeq(s, 1, Len(old)) = old
    THEN new \o Replace(SubSeq(s, Len(old) + 1, Len(s)), old, new)
    ELSE Head(s) \o Replace(Tail(s), old, new)

\* s.split(): the maximal runs of non-blank characters; word is the run
\* being read
RECURSIVE SplitFrom(_, _)
SplitFrom(s, word) ==
    IF Len(s) = 0 THEN (IF word = "" THEN <<>> ELSE <<word>>)
    ELSE IF Head(s) = " "
    THEN (IF word = "" THEN <<>> ELSE <<word>>) \o SplitFrom(Tail(s), "")
    ELSE SplitFrom(Tail(s), word \o Head(s))

Split(s) == SplitFrom(s, "")

\* performance_analyzer, the keywords of a requested name
RequestedKeywords(requested_fund) == Split(Strip(Replace(Lower(requested_fund), "fund", "")))

\* performance_analyzer, the score of an available name: the number of
\* keywords that occur in its lower-cased form
KeywordScore(requested_keywords, available_fund) ==
    LET available_lower == Lower(available_fund)
    IN  Cardinality({k \in 1..Len(requested_keywords) :
                         Contains(available_lower, requested_keywords[k])})

\* a matching loop that takes a later name of the same score
RECURSIVE BestMatch_last(_, _, _, _)
BestMatch_last(available_funds, requested_keywords, best_score, matched_fund) ==
    IF available_funds = <<>> THEN matched_fund
    ELSE LET score == KeywordScore(requested_keywords, Head(available_funds))
         IN  IF score > 0 /\ score >= best_score
             THEN BestMatch_last(Tail(available_funds), requested_keywords, score,
                                 [matched |-> TRUE, fund |-> Head(available_funds)])
             ELSE BestMatch_last(Tail(available_funds), requested_keywords, best_score,
                                 matched_fund)

\* performance_analyzer, the matching loop over the available names: a name
\* replaces the match when its score is above the best so far
RECURSIVE BestMatch(_, _, _, _)
BestMatch(available_funds, requested_keywords, best_score, matched_fund) ==
    IF available_funds = <<>> THEN matched_fund
    ELSE LET score == KeywordScore(requested_keywords, Head(available_funds))
         IN  IF score > best_score
             THEN BestMatch(Tail(available_funds), requested_keywords, score,
                            [matched |-> TRUE, fund |-> Head(available_funds)])
             ELSE BestMatch(Tail(available_funds), requested_keywords, best_score,
                            matched_fund)

\* an exact match that looks at the first available name only
ExactMatch_first(requested_fund, available_funds) ==
    available_funds # <<>> /\ requested_fund = available_funds[1]

\* performance_analyzer, the exact match: requested_fund in available_funds
ExactMatch(requested_fund, available_funds) == requested_fund \in Range(available_funds)

\* a fallback that keeps the requested name
Fallback_requested(requested_fund, available_funds) == requested_fund

\* performance_analyzer, the fallback without a match: the first available
\* name, the requested name when there is none
Fallback(requested_fund, available_funds) ==
    IF available_funds # <<>> THEN available_funds[1] ELSE requested_fund

\* performance_analyzer, the fund a requested name is matched to
MatchedFund(requested_fund, available_funds) ==
    IF ExactMatch(requested_fund, available_funds) THEN requested_fund
    ELSE LET best == BestMatch(available_funds, RequestedKeywords(requested_fund), 0,
                               [matched |-> FALSE])
         IN  IF best.matched THEN best.fund ELSE Fallback(requested_fund, available_funds)

\* performance_analyzer, the periods of the chart
time_periods == <<"1D", "15D", "30D", "90D", "180D", "270D", "365D", "2Y", "3Y">>

\* performance_analyzer, the series of one fund: its name and the value of
\* every period in hundredths, 0.0 for a period without a number
FundPerformance(matched_fund) ==
    [fund_name |-> matched_fund,
     periods   |-> [i \in 1..Len(time_periods) |->
                       LET matches == Query([fund_name |-> matched_fund,
                                             column |-> time_periods[i]], 1)
                           value   == _safe_float(MetaGet(matches[1], "value"))
                       IN  IF matches # <<>> /\ value # None THEN value.v ELSE 0]]

\* tools.py _generate_performance_insights: the number of insight texts
_generate_performance_insights(data, analysis_type) ==
    IF analysis_type \in {"trend", "volatility"} THEN 3 ELSE 0

\* tools.py _get_performance_recommendation
_get_performance_recommendation(data, analysis_type) ==
    IF analysis_type = "trend" THEN "consistent upward trends"
    ELSE IF analysis_type = "volatility" THEN "risk tolerance"
    ELSE "multiple time periods"

\* tools.py performance_analyzer, the value returned (the title is left out)
PerformanceResult(fund_names, analysis_type, gw) ==
    LET available_funds  == get_all_fund_names(gw)
        matched == [i \in 1..Len(fund_names) |-> MatchedFund(fund_names[i], available_funds)]
        performance_data == [i \in 1..Len(fund_names) |-> FundPerformance(matched[i])]
        noted            == SelectSeq([i \in 1..Len(fund_names) |->
                                          [requested |-> fund_names[i], actual |-> matched[i]]],
                                      LAMBDA note : note.requested # note.actual)
    IN  IF \E i \in 1..Len(fund_names), j \in 1..Len(time_periods) :
               QueryRaises([fund_name |-> matched[i], column |-> time_periods[j]], gw)
        THEN [type |-> "error", message |-> "Analysis failed"]
        ELSE [type |-> "performance_analysis",
              analysis_type |-> analysis_type,
              chart_data |-> [xAxis |-> time_periods, series |-> performance_data],
              insights |-> _generate_performance_insights(performance_data, analysis_type),
              funds_analyzed |-> Len(performance_data),
              fund_notes |-> noted,
              actual_funds |-> matched,
              recommendation |-> _get_performance_recommendation(performance_data, analysis_type)]

\* tools.py performance_analyzer.  The names of the call are kept with the
\* value returned.
performance_analyzer(fund_names, analysis_type, gw) ==
    /\ result' = Put(PerformanceResult(fund_names, analysis_type, gw), "fund_names", fund_names)
    /\ fault' = gw
    /\ UNCHANGED <<index, leadVars, serverVars, upsertVars>>

(***************************************************************************)
(* Specification of the performance analyzer.                              *)
(***************************************************************************)
\* the fund names of the sheet of this specification, in row order
PerformanceNames ==
    <<"JBS Income Fund", "JBS Beta Fund", "JBS Alpha Beta Fund", "JBS Cash Fund",
      "JBS Equity Fund", "JBS Islamic Fund">>

\* every sheet of at most MaxFunds rows whose cells come from `pool`; row i
\* carries the i-th name of `names`
NamedSheets(names, pool) ==
    UNION {{[i \in 1..n |-> FundRow(names[i], f[i])] : f \in [1..n -> pool]} : n \in 0..MaxFunds}

PerformancePool ==
    {PeriodCells("1.5", "4", "8", "16"),
     PeriodCells("-2", "n/a", "", "12.5%"),
     PeriodCells("", "", "", "")}

\* requested names: exact, fuzzy with one best name, fuzzy with a best name
\* that is not the first, ties, and requests without a keyword or a hit
RequestedFunds ==
    {"JBS Beta Fund", "JBS Alpha Fund", "income", "jbs fund", "Beta Cash", "Gold ETF",
     "Fund", "jbs income fund", "Cash Income"}

AnalysisTypes == {"trend", "volatility", "consistency"}

InitPerformance ==
    /\ index \in {IndexOf(sheet) : sheet \in NamedSheets(PerformanceNames, PerformancePool)}
    /\ fault = NoFault
    /\ result = NoResult
    /\ LeadAtRest /\ ServerAtRest /\ UpsertAtRest

PerformanceAnalyzer ==
    /\ result = NoResult
    /\ \/ \E requested_fund \in RequestedFunds :
              performance_analyzer(<<requested_fund>>, "trend", NoFault)
       \/ \E analysis_type \in AnalysisTypes :
              performance_analyzer(<<"JBS Cash Fund", "Gold ETF", "income">>, analysis_type, NoFault)
       \/ performance_analyzer(<<>>, "trend", NoFault)

\* a call during which the gateway is down or one point lookup fails
PerformanceAnalyzerFault ==
    /\ result = NoResult
    /\ \E requested_fund \in {"JBS Income Fund", "Gold ETF"},
          gw \in {Down, LookupFault(PerformanceNames[1], "365D")} :
           performance_analyzer(<<requested_fund>>, "trend", gw)

NextPerformance == PerformanceAnalyzer \/ PerformanceAnalyzerFault

SpecPerformance == InitPerformance /\ [][NextPerformance]_vars

(***************************************************************************)
(* Specification of the normalizer of raw values.                          *)
(***************************************************************************)
\* raw texts: an optional sign, a body and a tail
RawSigns == {"", "-", "+"}

RawBodies ==
    {"", "0", "7", "12.5", ".5", "5.", "8,950", "8,950,000", "1,2,3", "1.2.3",
     "abc", "N/A", "TBD", "nan", "NaN", "inf", "Infinity", " 42"}

RawTails == {"", "%", " ", " %", "x"}

RawTexts == {sign \o body \o tail : sign \in RawSigns, body \in RawBodies, tail \in RawTails}

\* the arguments of _safe_float: null, numbers and texts
RawValues == {None, Num(0), Num(1250), Num(0 - 350)} \cup {Str(text) : text \in RawTexts}

InitNormalize ==
    /\ index = <<>>
    /\ fault = NoFault
    /\ result = NoResult
    /\ LeadAtRest /\ ServerAtRest /\ UpsertAtRest

\* application of _safe_float to one raw value
SafeFloat ==
    /\ result = NoResult
    /\ \E value \in RawValues :
          result' = [type |-> "safe_float", value |-> value, normalized |-> _safe_float(value)]
    /\ UNCHANGED <<index, fault, leadVars, serverVars, upsertVars>>

NextNormalize == SafeFloat

SpecNormalize == InitNormalize /\ [][NextNormalize]_vars

(***************************************************************************)
(* Specification of the tools that take an investment amount.              *)
(***************************************************************************)
\* the amount texts of the calls
AmountTexts ==
    {"", "abc", "one lakh", "100,000", "100,000 - 500,000", "PKR 33 to 50", "Rs.2,500/-",
     "12.5", "-40", "1 000", "1,,2", ",7", "7,", ",", "PKR ,", "about, 5000"}

AmountPool ==
    {Cells("Medium", "100", "1.5", "12", ""),
     Cells("High", "100", "", "30", "")}

InitAmount ==
    /\ index \in {IndexOf(sheet) : sheet \in Sheets(AmountPool)}
    /\ fault = NoFault
    /\ result = NoResult
    /\ LeadAtRest /\ ServerAtRest /\ UpsertAtRest

\* application of _parse_investment_amount to one amount text
ParseInvestmentAmount ==
    /\ result = NoResult
    /\ \E amount_str \in AmountTexts :
          result' = [type |-> "investment_amount", amount_str |-> amount_str,
                     value |-> _parse_investment_amount(amount_str)]
    /\ UNCHANGED <<index, fault, leadVars, serverVars, upsertVars>>

\* a call of portfolio_builder.  The tool and the amount text of the call
\* are kept with the value returned.
PortfolioBuilderAmount ==
    /\ result = NoResult
    /\ \E investment_amount \in AmountTexts :
          result' = Put(Put(PortfolioResult("Medium", investment_amount, "moderate", NoFault),
                            "investment_amount", investment_amount),
                        "tool", "portfolio_builder")
    /\ UNCHANGED <<index, fault, leadVars, serverVars, upsertVars>>

\* a call of fee_optimizer.  The tool and the amount text of the call are
\* kept with the value returned.
FeeOptimizerAmount ==
    /\ result = NoResult
    /\ \E investment_amount \in AmountTexts :
          result' = Put(Put(FeeResult(investment_amount, "3 years", NoFault),
                            "investment_amount", investment_amount),
                        "tool", "fee_optimizer")
    /\ UNCHANGED <<index, fault, leadVars, serverVars, upsertVars>>

NextAmount == ParseInvestmentAmount \/ PortfolioBuilderAmount \/ FeeOptimizerAmount

SpecAmount == InitAmount /\ [][NextAmount]_vars

(***************************************************************************)
(* Specification of the market alerts.                                     *)
(***************************************************************************)
\* "TBD" is a cell the upserter stores as it is and that normalizes to None
AlertsPool ==
    {Cells("High", "100", "0.5", "80", ""),
     Cells("High", "100", "2", "60.01", ""),
     Cells("High", "100", "", "60", ""),
     Cells("Low", "100", "1", "", ""),
     Cells("High", "100", "TBD", "70", "")}

InitAlerts ==
    /\ index \in {IndexOf(sheet) : sheet \in Sheets(AlertsPool)}
    /\ fault = NoFault
    /\ result = NoResult
    /\ LeadAtRest /\ ServerAtRest /\ UpsertAtRest

\* the value of _generate_market_alerts for the profiles, kept with them
AlertsOfProfiles(fund_performance) ==
    [type             |-> "market_alerts",
     fund_performance |-> fund_performance,
     raised           |-> AlertsRaise(fund_performance),
     alerts           |-> IF AlertsRaise(fund_performance) THEN <<>>
                          ELSE _generate_market_alerts(fund_performance)]

\* application of _generate_market_alerts to the profiles of the funds of
\* the store
GenerateMarketAlerts ==
    /\ result = NoResult
    /\ result' = AlertsOfProfiles(FundProfiles(get_all_fund_names(NoFault), NoFault))
    /\ UNCHANGED <<index, fault, leadVars, serverVars, upsertVars>>

NextAlerts == GenerateMarketAlerts

SpecAlerts == InitAlerts /\ [][NextAlerts]_vars

(***************************************************************************)
(* Lead collection (collect_lead, handle_lead_response).  The tools keep   *)
(* no state: the context of the session is handed to collect_lead by the   *)
(* agent, and handle_lead_response emits the update to apply to it.        *)
(***************************************************************************)
Bool(b) == [t |-> "bool", v |-> b]

\* Python truthiness of a value of a dict
TruthyValue(value) == value \notin {None, Bool(FALSE), Str(""), Num(0)}

\* `d and d.get(key)`, on a dict d or None
HasFlag(d, key) == d # None /\ DOMAIN d # {} /\ TruthyValue(Get(d, key, None))

\* dict.get(key) on a dict
GetOrNone(d, key) == Get(d, key, None)

\* d.update(other)
Update(d, other) ==
    [key \in DOMAIN d \cup DOMAIN other |-> IF key \in DOMAIN other THEN other[key] ELSE d[key]]

\* a collect_lead that looks at the submission before the refusal
collect_lead_submitted_first(context) ==
    IF HasFlag(context, "lead_submitted")
    THEN [type |-> "lead_already_submitted"]
    ELSE IF HasFlag(context, "lead_collection_declined")
    THEN [type |-> "lead_collection_declined"]
    ELSE [type |-> "lead_collection",
          form_fields |-> <<"name", "email">>,
          decline_option |-> "No thanks, I prefer to continue anonymously"]

\* tools.py collect_lead, the value returned (of the form only the ids of
\* its fields and the decline option are kept; the messages are left out)
collect_lead(context) ==
    IF HasFlag(context, "lead_collection_declined")
    THEN [type |-> "lead_collection_declined"]
    ELSE IF HasFlag(context, "lead_submitted")
    THEN [type |-> "lead_already_submitted"]
    ELSE [type |-> "lead_collection",
          form_fields |-> <<"name", "email">>,
          decline_option |-> "No thanks, I prefer to continue anonymously"]

\* tools.py handle_lead_response, the value returned (of the message only
\* the name it greets is kept)
handle_lead_response(action, form_data) ==
    IF action = "submit" /\ form_data # None /\ DOMAIN form_data # {}
    THEN [type |-> "lead_submitted",
          message |-> Get(form_data, "name", Str("")),
          user_context_update |->
              [lead_submitted    |-> Bool(TRUE),
               user_name         |-> GetOrNone(form_data, "name"),
               user_email        |-> GetOrNone(form_data, "email"),
               investment_amount |-> GetOrNone(form_data, "investment_amount"),
               risk_preference   |-> GetOrNone(form_data, "risk_preference")]]
    ELSE IF action = "decline"
    THEN [type |-> "lead_declined",
          user_context_update |-> [lead_collection_declined |-> Bool(TRUE)]]
    ELSE [type |-> "error", message |-> Str("Invalid lead response action")]

(***************************************************************************)
(* Specification of the lead dialogue of one session: calls of the two     *)
(* tools in any order and number, the context of the session taking up     *)
(* the updates the calls emit.                                             *)
(***************************************************************************)
\* the contexts a session starts with
StartContexts ==
    {EmptyDict,
     [lead_collection_declined |-> Bool(FALSE)],
     [lead_submitted |-> Bool(TRUE), user_name |-> Str("Sana")],
     [risk_preference |-> Str("Low"), lead_submitted |-> Bool(FALSE)]}

LeadActions == {"submit", "decline", "close"}

FormData ==
    {None, EmptyDict,
     [name |-> Str("Ali"), email |-> Str("ali@jbs.pk")],
     [email |-> Str("ali@jbs.pk"), investment_amount |-> Str("100,000")],
     [name |-> Str(""), risk_preference |-> Str("High")],
     [name |-> Str("Sana"), email |-> None, lead_collection_declined |-> Bool(FALSE)]}

InitLead ==
    /\ index = <<>>
    /\ fault = NoFault
    /\ result = NoResult
    /\ user_context \in StartContexts
    /\ ServerAtRest /\ UpsertAtRest

\* a call of collect_lead with the context of the session
CollectLead ==
    /\ result' = Put(collect_lead(user_context), "tool", "collect_lead")
    /\ UNCHANGED <<index, fault, leadVars, serverVars, upsertVars>>

\* a call of handle_lead_response
HandleLeadResponse ==
    /\ \E action \in LeadActions, form_data \in FormData :
          result' = Put(handle_lead_response(action, form_data), "tool", "handle_lead_response")
    /\ UNCHANGED <<index, fault, leadVars, serverVars, upsertVars>>

\* the context of the session takes up the update the last call emitted
ApplyContextUpdate ==
    /\ "user_context_update" \in DOMAIN result
    /\ user_context' = Update(user_context, result.user_context_update)
    /\ UNCHANGED <<toolVars, serverVars, upsertVars>>

NextLead == CollectLead \/ HandleLeadResponse \/ ApplyContextUpdate

SpecLead == InitLead /\ [][NextLead]_vars

(***************************************************************************)
(* The chat server (main.py).  active_sessions is the dict of the          *)
(* sessions; of a session only its list of messages is kept, of a message  *)
(* its role, its content and, standing for its timestamp, the request      *)
(* that added it.  A /chat request runs on the event loop and yields at    *)
(* its two awaits: requests[r].pc is "idle" before the request arrives,    *)
(* "make_graph" while it awaits make_graph, "ainvoke" while it awaits the  *)
(* agent, and "done" or "failed" once it has answered.                     *)
(***************************************************************************)
StartsWith(s, prefix) == Len(s) >= Len(prefix) /\ SubSeq(s, 1, Len(prefix)) = prefix

\* the texts json.loads accepts, each with the text json.dumps gives for
\* the value read
JsonDocuments ==
    [text \in {"{\"name\": \"Ali\"}", "{\"name\":\"Ali\",\"email\":\"ali@jbs.pk\"}"} |->
        IF text = "{\"name\": \"Ali\"}" THEN "{\"name\": \"Ali\"}"
        ELSE "{\"name\": \"Ali\", \"email\": \"ali@jbs.pk\"}"]

\* chat_endpoint, the rewriting of the lead messages of the front end
ProcessedMessage(message) ==
    IF StartsWith(message, "LEAD_SUBMIT:")
    THEN LET form_data_str == Strip(Replace(message, "LEAD_SUBMIT:", ""))
         IN  IF form_data_str \in DOMAIN JsonDocuments
             THEN "Please handle my lead submission with the following data: "
                      \o JsonDocuments[form_data_str]
             ELSE "I want to submit my lead information"
    ELSE IF message = "LEAD_DECLINE"
    THEN "I prefer not to share my contact information at this time"
    ELSE IF message = "LEAD_CLOSE"
    THEN "I want to close the lead collection form"
    ELSE message

\* chat_endpoint, the history handed to the agent: the messages of the
\* session and the current user message
ConversationHistory(session_messages, message) ==
    Append([i \in 1..Len(session_messages) |->
               [role |-> session_messages[i].role, content |-> session_messages[i].content]],
           [role |-> "user", content |-> ProcessedMessage(message)])

\* chat_endpoint, the messages of agent_input
AgentInput(session_messages, message) ==
    IF Len(session_messages) = 0
    THEN <<[role |-> "user", content |-> message]>>
    ELSE ConversationHistory(session_messages, message)

\* a message content that is a list of content blocks
Blocks == [t |-> "list"]

\* the response types whose JSON is added to the response
StructuredTypes ==
    {"recommendation", "comparison", "performance_analysis", "market_insights",
     "consistency_analysis", "correlation_analysis", "portfolio", "smart_recommendation",
     "fee_analysis", "fund_screening", "opportunity_scan", "smart_alerts", "lead_collection",
     "lead_submitted", "lead_declined", "lead_collection_declined", "lead_already_submitted",
     "quiz"}

\* chat_endpoint, the content of the response.  Of the result of the agent
\* reply.content is the content of the last message (the empty text when
\* there is none), reply.type the value of "type" in the first message
\* that is a JSON object holding that key (None when there is none), and
\* reply.json the text json.dumps gives for that object.
ResponseContent(reply) ==
    IF reply.content = Blocks THEN Blocks
    ELSE IF reply.type \in {Str(t) : t \in StructuredTypes}
            /\ ~Contains(reply.content.s, reply.json)
    THEN Str(reply.content.s \o "\n\n" \o reply.json)
    ELSE reply.content

\* a value pydantic accepts for a field of type str
ValidStr(value) == value.t = "str"

ChatMessage(role, content, r) == [role |-> role, content |-> content, request |-> r]

\* del d[key]
Delete(d, key) == [k \in DOMAIN d \ {key} |-> d[k]]

\* list.append on the messages of a session
AppendMessage(sessions, session_id, message) ==
    [sessions EXCEPT ![session_id] = [messages |-> Append(@.messages, message)]]

(***************************************************************************)
(* Specification of the chat server: MaxRequests /chat requests, arriving  *)
(* in the order of their numbers and running concurrently, and any number  *)
(* of history and delete requests in between.                              *)
(***************************************************************************)
MaxRequests == 2

RequestIds == 1..MaxRequests

SessionIds == {"s1", "s2"}

ChatTexts ==
    {"Which fund is best?", "LEAD_DECLINE", "LEAD_CLOSE", "LEAD_SUBMIT:oops",
     "LEAD_SUBMIT: {\"name\":\"Ali\",\"email\":\"ali@jbs.pk\"}"}

\* what the await of the agent gives
AgentReplies ==
    {[raised |-> TRUE,  content |-> Str(""), type |-> None, json |-> ""],
     [raised |-> FALSE, content |-> Str(""), type |-> None, json |-> ""],
     [raised |-> FALSE, content |-> Str("Happy to help."), type |-> Str("education"),
      json |-> "{\"type\": \"education\"}"],
     [raised |-> FALSE, content |-> Str("Please fill in the form."), type |-> Str("lead_collection"),
      json |-> "{\"type\": \"lead_collection\"}"],
     [raised |-> FALSE, content |-> Str("Noted."), type |-> Num(5), json |-> "{\"type\": 5}"],
     [raised |-> FALSE, content |-> Blocks, type |-> None, json |-> ""]}

Idle == [pc |-> "idle", session_id |-> "", message |-> "", agent_input |-> <<>>, cleared |-> FALSE]

InitServer ==
    /\ index = <<>>
    /\ fault = NoFault
    /\ result = NoResult
    /\ active_sessions = EmptyDict
    /\ requests = [r \in RequestIds |-> Idle]
    /\ LeadAtRest /\ UpsertAtRest

\* chat_endpoint up to the await of make_graph: the session is created when
\* its id is new
ChatStart(r) ==
    /\ requests[r].pc = "idle"
    /\ \A earlier \in RequestIds : earlier < r => requests[earlier].pc # "idle"
    /\ \E session_id \in SessionIds, message \in ChatTexts :
          /\ active_sessions' = IF session_id \in DOMAIN active_sessions THEN active_sessions
                                ELSE Put(active_sessions, session_id, [messages |-> <<>>])
          /\ requests' = [requests EXCEPT ![r] = [pc |-> "make_graph", session_id |-> session_id,
                                                  message |-> message, agent_input |-> <<>>,
                                                  cleared |-> FALSE]]
    /\ UNCHANGED <<toolVars, leadVars, upsertVars>>

\* chat_endpoint from the return of make_graph to the await of the agent;
\* make_graph may raise, and the messages of a session that is gone are a
\* KeyError
ChatPrepare(r) ==
    /\ requests[r].pc = "make_graph"
    /\ \E raised \in BOOLEAN :
          LET session_id == requests[r].session_id
          IN  requests' = [requests EXCEPT ![r] =
                  IF raised \/ session_id \notin DOMAIN active_sessions
                  THEN [@ EXCEPT !.pc = "failed"]
                  ELSE [@ EXCEPT !.pc = "ainvoke",
                                 !.agent_input = AgentInput(active_sessions[session_id].messages,
                                                            requests[r].message)]]
    /\ UNCHANGED <<active_sessions, toolVars, leadVars, upsertVars>>

\* chat_endpoint from the return of the agent to the response
ChatFinish(r) ==
    /\ requests[r].pc = "ainvoke"
    /\ \E reply \in AgentReplies :
          LET session_id == requests[r].session_id
              response_content == ResponseContent(reply)
              user_message == ChatMessage("user", requests[r].message, r)
              assistant_message == ChatMessage("assistant", response_content.s, r)
          IN  IF reply.raised \/ session_id \notin DOMAIN active_sessions
              THEN /\ active_sessions' = active_sessions
                   /\ requests' = [requests EXCEPT ![r].pc = "failed"]
              ELSE IF ~ValidStr(response_content)
              THEN /\ active_sessions' = AppendMessage(active_sessions, session_id, user_message)
                   /\ requests' = [requests EXCEPT ![r].pc = "failed"]
              ELSE /\ active_sessions' =
                          AppendMessage(AppendMessage(active_sessions, session_id, user_message),
                                        session_id, assistant_message)
                   /\ requests' = [requests EXCEPT ![r].pc =
                          IF reply.type = None \/ ValidStr(reply.type) THEN "done" ELSE "failed"]
    /\ UNCHANGED <<toolVars, leadVars, upsertVars>>

\* get_chat_history: reads the session, or answers 404
GetChatHistory(session_id) ==
    /\ UNCHANGED vars

\* clear_session: deletes the session, or answers 404.  The requests that
\* are running for the session are marked.
ClearSession(session_id) ==
    /\ active_sessions' = IF session_id \in DOMAIN active_sessions
                          THEN Delete(active_sessions, session_id) ELSE active_sessions
    /\ requests' = [r \in RequestIds |->
                       IF /\ session_id \in DOMAIN active_sessions
                          /\ requests[r].session_id = session_id
                          /\ requests[r].pc \in {"make_graph", "ainvoke"}
                       THEN [requests[r] EXCEPT !.cleared = TRUE]
                       ELSE requests[r]]
    /\ UNCHANGED <<toolVars, leadVars, upsertVars>>

NextServer ==
    \/ \E r \in RequestIds : ChatStart(r) \/ ChatPrepare(r) \/ ChatFinish(r)
    \/ \E session_id \in SessionIds : GetChatHistory(session_id) \/ ClearSession(session_id)

SpecServer == InitServer /\ [][NextServer]_vars

(***************************************************************************)
(* The upserters (upsert_educational_data.py, upsert_to_pinecone.py).  Of  *)
(* the lists vectors_to_upsert and all_chunks only the lengths are kept;   *)
(* upserted holds the length of the list of every call of _upsert_batch,   *)
(* in the order of the calls.  rows_left counts the Q&A pairs or the fund  *)
(* rows the loop has still to visit.                                       *)
(***************************************************************************)
\* self.batch_size of both upserters
batch_size == 100

\* the Q&A pairs of a run of EducationalDataUpserter
MaxPairs == 102

\* the fund rows of a run of FundDataUpserter
MaxRows == 3

\* the chunks _process_fund_row returns for a row: one for every column
\* whose value is not empty and whose embedding succeeds
ChunkCounts == {0, 1, 60, 100, 150}

InitUpsert ==
    /\ index = <<>>
    /\ fault = NoFault
    /\ result = NoResult
    /\ \/ upserter = "EducationalDataUpserter" /\ rows_left \in 0..MaxPairs
       \/ upserter = "FundDataUpserter" /\ rows_left \in 0..MaxRows
    /\ vectors_to_upsert = 0
    /\ all_chunks = 0
    /\ upserted = <<>>
    /\ LeadAtRest /\ ServerAtRest

\* EducationalDataUpserter.upsert_data, one iteration of the loop: the
\* vector of the pair is appended unless its embedding fails; a full list
\* is upserted and emptied, and an upsert that raises is logged like a
\* failed embedding and leaves the list as it is
PrepareVector ==
    /\ upserter = "EducationalDataUpserter"
    /\ rows_left > 0
    /\ rows_left' = rows_left - 1
    /\ \E embedded \in BOOLEAN, upsert_raises \in BOOLEAN :
          LET vectors == vectors_to_upsert + 1
          IN  IF ~embedded
              THEN UNCHANGED <<vectors_to_upsert, upserted>>
              ELSE IF vectors >= batch_size
              THEN /\ upserted' = Append(upserted, vectors)
                   /\ vectors_to_upsert' = IF upsert_raises THEN vectors ELSE 0
              ELSE /\ vectors_to_upsert' = vectors
                   /\ UNCHANGED upserted
    /\ UNCHANGED <<upserter, all_chunks, toolVars, leadVars, serverVars>>

\* EducationalDataUpserter.upsert_data after the loop: the remaining
\* vectors are upserted; an upsert that raises ends the run
UpsertRemainingVectors ==
    /\ upserter = "EducationalDataUpserter"
    /\ rows_left = 0
    /\ \E upsert_raises \in BOOLEAN :
          IF vectors_to_upsert > 0
          THEN /\ upserted' = Append(upserted, vectors_to_upsert)
               /\ upserter' = IF upsert_raises THEN "failed" ELSE "done"
          ELSE /\ upserter' = "done"
               /\ UNCHANGED upserted
    /\ UNCHANGED <<rows_left, vectors_to_upsert, all_chunks, toolVars, leadVars, serverVars>>

\* FundDataUpserter.upsert_all_data, one iteration of the loop: the chunks
\* of the row are added, and the first batch_size chunks of a list that
\* has reached batch_size are upserted; an upsert that raises ends the run
ProcessFundRow ==
    /\ upserter = "FundDataUpserter"
    /\ rows_left > 0
    /\ rows_left' = rows_left - 1
    /\ \E fund_chunks \in ChunkCounts, upsert_raises \in BOOLEAN :
          LET chunks == all_chunks + fund_chunks
          IN  IF chunks >= batch_size
              THEN /\ upserted' = Append(upserted, Min(batch_size, chunks))
                   /\ all_chunks' = IF upsert_raises THEN chunks ELSE chunks - batch_size
                   /\ upserter' = IF upsert_raises THEN "failed" ELSE upserter
              ELSE /\ all_chunks' = chunks
                   /\ UNCHANGED <<upserted, upserter>>
    /\ UNCHANGED <<vectors_to_upsert, toolVars, leadVars, serverVars>>

\* FundDataUpserter.upsert_all_data after the loop: the remaining chunks
\* are upserted
UpsertRemainingChunks ==
    /\ upserter = "FundDataUpserter"
    /\ rows_left = 0
    /\ \E upsert_raises \in BOOLEAN :
          IF all_chunks > 0
          THEN /\ upserted' = Append(upserted, all_chunks)
               /\ upserter' = IF upsert_raises THEN "failed" ELSE "done"
          ELSE /\ upserter' = "done"
               /\ UNCHANGED upserted
    /\ UNCHANGED <<rows_left, vectors_to_upsert, all_chunks, toolVars, leadVars, serverVars>>

NextUpsert ==
    PrepareVector \/ UpsertRemainingVectors \/ ProcessFundRow \/ UpsertRemainingChunks

SpecUpsert == InitUpsert /\ [][NextUpsert]_vars

(***************************************************************************)
(* Claims about scoring and ranking, checked under SpecRecommend.          *)
(***************************************************************************)
\* the value a field normalizes to, or `default` when it is missing (absent,
\* None or not a number)
Recorded(fund, key, default) ==
    LET x == _safe_float(Get(fund, key, None))
    IN  IF x = None THEN default ELSE x.v

RecFunds == query_funds_by_risk_profile(result.criteria.risk_profile, fault)

RecScore(fund) ==
    _calculate_fund_score(fund, result.criteria.priority, result.criteria.time_horizon)

RecNames == {result.recommendations[i].fund.name : i \in 1..Len(result.recommendations)}

\* C2 as stated: no fund is dropped for a floored score of 0, so when the
\* query returns at most 3 funds all of them are recommended.
C2_Original ==
    (result.type = "smart_recommendation" /\ Len(RecFunds) <= 3)
        => /\ Len(result.recommendations) = Len(RecFunds)
           /\ RecNames = {RecFunds[i].name : i \in 1..Len(RecFunds)}

\* C2 amended: the ranking candidates are exactly the funds of the query whose
\* floored score is positive; a fund whose score is 0 is dropped.  When the
\* query returns at most 3 funds, the recommendations are those with a
\* positive score, each once, and no recommendation has score 0.
C2_ZeroScoreDropped ==
    result.type = "smart_recommendation"
        => /\ \A i \in 1..Len(result.recommendations) :
                  result.recommendations[i].fund.score > 0
           /\ Len(RecFunds) <= 3
                  => /\ RecNames = {RecFunds[i].name : i \in
                                       {j \in 1..Len(RecFunds) : RecScore(RecFunds[j]) > 0}}
                     /\ Len(result.recommendations) = Cardinality(RecNames)

\* at most 3 funds returned, one of them with score 0 and one recommended
C2_Witness ==
    /\ result.type = "smart_recommendation"
    /\ Len(RecFunds) <= 3
    /\ \E i \in 1..Len(RecFunds) : RecScore(RecFunds[i]) = 0
    /\ Len(result.recommendations) >= 1

\* the reference formula of C3: the defaults stand in for missing fields only
ReferenceScore(fund, priority) ==
    LET r == Recorded(fund, "return_365d", 0)
        e == Recorded(fund, "expense_ratio", 500)
    IN  IF priority = "returns" THEN Max(r * 8, 0)
        ELSE IF priority = "fees" THEN Max((500 - e) * 200, 0)
        ELSE IF priority = "stability" THEN 50000
        ELSE Max(r * 6 + (500 - e) * 100, 0)

\* C3: _calculate_fund_score equals the reference formula for every fund and
\* priority, every recorded value (an expense ratio of 0 included) being used
\* as recorded.
C3_ReferenceFormula ==
    result.type = "fund_score"
        => result.score = ReferenceScore(result.fund, result.priority)

\* the ranking candidates of the last smart_recommender call, in query order
RecCandidates ==
    SelectSeq([i \in 1..Len(RecFunds) |-> Put(RecFunds[i], "score", RecScore(RecFunds[i]))],
              LAMBDA f : f.score > 0)

\* position of the fund called `name` among the candidates `cands`
CandidateAt(cands, name) == CHOOSE j \in 1..Len(cands) : cands[j].name = name

\* candidate a comes before candidate b in a stable descending sort
RanksBefore(cands, a, b) ==
    \/ cands[a].score > cands[b].score
    \/ cands[a].score = cands[b].score /\ a < b

\* C4: the recommendations are the first 3 candidates of a stable sort by
\* score descending: position i carries rank i (rank i+1 for the 0-based
\* position i of the code), scores do not increase down the ranking, equal
\* scores keep the order of the store query, and every candidate left out
\* ranks after every recommendation.
C4_StableTop3 ==
    result.type = "smart_recommendation"
        => LET recs  == result.recommendations
               cands == RecCandidates
               names == {cands[j].name : j \in 1..Len(cands)}
           IN  /\ Len(recs) = Min(3, Len(cands))
               /\ \A i \in 1..Len(recs) : recs[i].fund.name \in names
               /\ LET at == [i \in 1..Len(recs) |-> CandidateAt(cands, recs[i].fund.name)]
                  IN  /\ \A i \in 1..Len(recs) :
                             /\ recs[i].rank = i
                             /\ recs[i].fund = cands[at[i]]
                             /\ recs[i].score = Round2(recs[i].fund.score)
                      /\ \A i, j \in 1..Len(recs) : i < j => RanksBefore(cands, at[i], at[j])
                      /\ \A c \in 1..Len(cands) :
                             c \notin Range(at)
                                 => \A i \in 1..Len(recs) : RanksBefore(cands, at[i], c)

\* more than 3 candidates, two of them with the same score, of which the
\* earlier one is recommended and the later one is cut
C4_Witness ==
    /\ result.type = "smart_recommendation"
    /\ Len(result.recommendations) = 3
    /\ LET cands == RecCandidates
           names == RecNames
       IN  /\ Len(cands) > 3
           /\ \E a, b \in 1..Len(cands) :
                  /\ a < b
                  /\ cands[a].score = cands[b].score
                  /\ cands[a].name \in names
                  /\ cands[b].name \notin names

(***************************************************************************)
(* Claims about the portfolio allocation.                                  *)
(***************************************************************************)
\* the funds the allocation of the result was made from
PortfolioFunds ==
    LET categorized == CategorizedFunds(fault)
    IN  IF categorized # <<>> THEN categorized
        ELSE FallbackFunds(FallbackNames(fault), fault)

\* the positions of the funds of a risk bucket, in input order
Bucket(funds, risk_cat) == {j \in 1..Len(funds) : funds[j].risk_category = risk_cat}

Buckets == {"Low", "Medium", "High"}

\* the allocation table as specified: the Low, Medium and High percentages
TableRow(risk_profile, diversification) ==
    CASE risk_profile = "Low" /\ diversification = "conservative" -> <<70, 25, 5>>
      [] risk_profile = "Low" /\ diversification # "conservative" -> <<60, 30, 10>>
      [] risk_profile = "Medium" /\ diversification = "conservative" -> <<40, 50, 10>>
      [] risk_profile = "Medium" /\ diversification # "conservative" -> <<30, 50, 20>>
      [] risk_profile = "High" /\ diversification = "conservative" -> <<20, 30, 50>>
      [] risk_profile = "High" /\ diversification # "conservative" -> <<10, 30, 60>>

TablePercentage(row, risk_cat) ==
    CASE risk_cat = "Low" -> row[1] [] risk_cat = "Medium" -> row[2] [] risk_cat = "High" -> row[3]

\* C5: when each of the Low, Medium and High buckets holds a fund, the
\* allocation has exactly three entries, their percentages sum to 100, and
\* the amounts round(investment_value * percentage / 100, 2) sum to the
\* investment value.
C5_AllocationSums ==
    result.type = "portfolio"
        => LET funds == PortfolioFunds
               alloc == result.allocation
           IN  (\A b \in Buckets : Bucket(funds, b) # {})
                   => /\ Len(alloc) = 3
                      /\ SumSeq([i \in 1..Len(alloc) |-> alloc[i].percentage]) = 100
                      /\ \A i \in 1..Len(alloc) :
                             alloc[i].amount * 100 = result.total_investment * alloc[i].percentage
                      /\ SumSeq([i \in 1..Len(alloc) |-> alloc[i].amount]) = result.total_investment

\* a portfolio of 33 rupees over three non-empty buckets: amounts with cents
C5_Witness ==
    /\ result.type = "portfolio"
    /\ \A b \in Buckets : Bucket(PortfolioFunds, b) # {}
    /\ result.total_investment = 3300
    /\ Len(result.allocation) = 3
    /\ \E i \in 1..3 : result.allocation[i].amount % 100 # 0

\* C6: with funds in every bucket the entries come in the order Low, Medium,
\* High with the percentages of the static table, where every
\* diversification level other than "conservative" selects the other row.
C6_StaticTable ==
    result.type = "portfolio" /\ result.title \in {"Low", "Medium", "High"}
        => LET funds == PortfolioFunds
               alloc == result.allocation
           IN  (\A b \in Buckets : Bucket(funds, b) # {})
                   => /\ [i \in 1..Len(alloc) |-> alloc[i].risk_category] = <<"Low", "Medium", "High">>
                      /\ [i \in 1..Len(alloc) |-> alloc[i].percentage]
                             = TableRow(result.title, result.diversification_level)

\* a Medium portfolio at a level that is neither conservative nor moderate,
\* over three non-empty buckets
C6_Witness ==
    /\ result.type = "portfolio"
    /\ result.title = "Medium"
    /\ result.diversification_level = "aggressive"
    /\ \A b \in Buckets : Bucket(PortfolioFunds, b) # {}
    /\ Len(result.allocation) = 3

\* C7: a bucket without funds gets no entry and the other buckets keep their
\* table percentages, so the percentages sum to 100 minus those of the empty
\* buckets; no entry has percentage 0 and none is for a bucket without funds.
C7_EmptyBucketOmitted ==
    result.type = "portfolio" /\ result.title \in {"Low", "Medium", "High"}
        => LET funds == PortfolioFunds
               alloc == result.allocation
               row   == TableRow(result.title, result.diversification_level)
               cats  == [i \in 1..Len(alloc) |-> alloc[i].risk_category]
               empty == {b \in Buckets : Bucket(funds, b) = {}}
               lost  == [b \in Buckets |-> IF b \in empty THEN TablePercentage(row, b) ELSE 0]
           IN  /\ \A i \in 1..Len(alloc) :
                      /\ alloc[i].percentage > 0
                      /\ cats[i] \in Buckets \ empty
                      /\ alloc[i].percentage = TablePercentage(row, cats[i])
               /\ \A b \in Buckets \ empty : Cardinality({i \in 1..Len(alloc) : cats[i] = b}) = 1
               /\ SumSeq([i \in 1..Len(alloc) |-> alloc[i].percentage])
                      = 100 - (lost["Low"] + lost["Medium"] + lost["High"])

\* a portfolio with an empty bucket: fewer than three entries, below 100
C7_Witness ==
    /\ result.type = "portfolio"
    /\ result.title \in {"Low", "Medium", "High"}
    /\ \E b \in Buckets : Bucket(PortfolioFunds, b) = {}
    /\ Len(result.allocation) \in {1, 2}
    /\ SumSeq([i \in 1..Len(result.allocation) |-> result.allocation[i].percentage]) < 100

ScreenProfiles ==
    LET all_funds == get_all_fund_names(NoFault)
    IN  [i \in 1..Len(all_funds) |-> _get_fund_complete_data(all_funds[i], NoFault)]

\* the criteria as specified: the defaults stand in for missing values only
MeetsAsSpecified(fund_data, criteria) ==
    /\ "min_return" \in DOMAIN criteria
           => Recorded(fund_data, "return_365d", 0) >= criteria["min_return"]
    /\ "max_fee" \in DOMAIN criteria
           => Recorded(fund_data, "expense_ratio", 99900) <= criteria["max_fee"]
    /\ "risk_profile" \in DOMAIN criteria
           => Get(fund_data, "risk_profile", None) = Str(criteria["risk_profile"])

\* C9: fund_screener keeps a fund if and only if every criterion present
\* holds, with return 0 and expense ratio 999 standing in for missing values
\* only, so that a recorded expense ratio of 0 is compared as recorded.
C9_KeptIffCriteria ==
    fault = NoFault /\ result.type = "fund_screening"
        => LET profiles == ScreenProfiles
               kept     == {result.screened_funds[i].name : i \in 1..Len(result.screened_funds)}
           IN  \A i \in 1..Len(profiles) :
                   profiles[i].name \in kept
                       <=> MeetsAsSpecified(profiles[i], result.criteria_applied)

\* C10: when the lookup of one (fund, metric) pair raises during a
\* screening, the screening still returns its normal result, over every
\* fund name.
C10_LookupFailureAbsorbed ==
    fault.kind = "lookup" /\ result # NoResult
        => /\ result.type = "fund_screening"
           /\ result.total_funds_screened = Len(get_all_fund_names(NoFault))

(***************************************************************************)
(* Claims about the tools over the whole fund universe.                    *)
(***************************************************************************)
\* some 365D return or Total Expense Ratio of the store is recorded but
\* normalizes to None
NullRecordPresent ==
    \E i \in 1..Len(index) :
        /\ index[i].column \in {"365D", "Total Expense Ratio"}
        /\ _safe_float(Str(index[i].value)) = None

\* C11: when a 365D return or a Total Expense Ratio is recorded but
\* normalizes to null, market_insights, fee_optimizer and opportunity_scanner
\* (with the gateway up) return their normal result, not an error.
C11_MissingDataNotFailure ==
    fault = NoFault /\ result # NoResult /\ NullRecordPresent => result.type # "error"

\* C12: when the gateway fails on the listing of the fund universe,
\* market_insights, opportunity_scanner and fee_optimizer return a result of
\* type "error", not a success-shaped result of zero funds.
C12_TotalFailureIsError ==
    fault = Down /\ result # NoResult => result.type = "error"

(***************************************************************************)
(* Claims about the correlation analyzer.                                  *)
(***************************************************************************)
NeedTwoFunds == "Need at least 2 funds for correlation analysis"

\* C13: correlation_analyzer called with fewer than 2 names returns the
\* error result at once, whatever the condition of the gateway (no lookup
\* is made, nothing is computed); with 2 or more names it never returns that
\* error.
C13_FewerThanTwoRejected ==
    result # NoResult
        => IF Len(result.fund_names) < 2
           THEN result = [type |-> "error", message |-> NeedTwoFunds,
                          fund_names |-> result.fund_names]
           ELSE result.type = "error" => result.message # NeedTwoFunds

\* one name, whose lookup would raise if it were made: rejected, not failed
C13_Witness ==
    /\ fault = LookupFault(FundNames[1], "365D")
    /\ result # NoResult
    /\ result.fund_names = <<FundNames[1]>>
    /\ \E i \in 1..Len(index) : index[i].fund_name = FundNames[1]
    /\ result.type = "error"
    /\ result.message = NeedTwoFunds

\* the risk-profile label of a profile as specified: Unknown when the store
\* has none
LabelOf(profile) == Get(profile, "risk_profile", Str("Unknown"))

\* clamp(base, -1, 1) of the specified base, in hundred-thousandths
CorrelationAsSpecified(a, b) ==
    LET ra   == Recorded(a, "return_365d", 0)
        rb   == Recorded(b, "return_365d", 0)
        base == IF LabelOf(a) = LabelOf(b) THEN 70000 - 4 * Abs(ra - rb)
                ELSE 30000 - 2 * Abs(ra - rb)
    IN  IF base > 100000 THEN 100000 ELSE IF base < 0 - 100000 THEN 0 - 100000 ELSE base

\* C16: for every ordered pair of profiles the correlation is
\* clamp(base, -1, 1), base = 0.7 - 0.4*|ra - rb|/100 for equal risk-profile
\* labels and 0.3 - 0.2*|ra - rb|/100 otherwise, missing returns counted as
\* 0; every result lies in [-1, 1].
C16_CorrelationFormula ==
    result # NoResult /\ result.type = "correlation_analysis"
        => \A i \in 1..Len(result.correlation_matrix) :
               LET row == result.correlation_matrix[i]
                   a   == _get_fund_complete_data(row.fund, NoFault)
               IN  \A j \in 1..Len(row.correlations) :
                       LET corr == row.correlations[j]
                           b    == _get_fund_complete_data(corr.with_fund, NoFault)
                       IN  /\ corr.correlation = CorrelationAsSpecified(a, b)
                           /\ corr.correlation >= 0 - 100000
                           /\ corr.correlation <= 100000

(***************************************************************************)
(* Claims about the consistency analyzer.                                  *)
(***************************************************************************)
\* the number of the four periods for which the store holds a value of the
\* fund that normalizes to a number
NumericPeriods(fund_name) ==
    Cardinality({p \in {"30D", "90D", "180D", "365D"} :
        \E i \in 1..Len(index) :
            /\ index[i].fund_name = fund_name
            /\ index[i].column = p
            /\ _safe_float(Str(index[i].value)) # None})

\* the number of times x occurs in the sequence xs
Count(xs, x) == Cardinality({i \in 1..Len(xs) : xs[i] = x})

\* C14: a fund has a consistency record exactly when at least 3 of its four
\* periods normalize to a number (otherwise its score is null, without an
\* exception); consistency_analyzer skips the funds without a record and
\* returns the records of all the others, sorted by consistency_score
\* descending.
C14_NullBelowThreePeriods ==
    fault = NoFault /\ result # NoResult
        => /\ result.type = "consistency_analysis"
           /\ LET ranking == result.consistency_ranking
                  ranked  == [i \in 1..Len(ranking) |-> ranking[i].fund_name]
              IN  /\ \A i \in 1..Len(result.fund_names) :
                         LET name == result.fund_names[i]
                         IN  /\ (_calculate_consistency_score(name, NoFault) = None)
                                    <=> NumericPeriods(name) < 3
                             /\ Count(ranked, name)
                                    = IF NumericPeriods(name) < 3 THEN 0
                                      ELSE Count(result.fund_names, name)
                  /\ \A i \in 1..Len(ranked) : Count(result.fund_names, ranked[i]) > 0
                  /\ result.funds_analyzed = Len(ranking)
                  /\ \A i, j \in 1..Len(ranking) :
                         i < j => ranking[i].consistency_score >= ranking[j].consistency_score

\* three names: one with only 2 numeric periods, skipped, and two with
\* records of different scores, the later name ranked first
C14_Witness ==
    /\ fault = NoFault
    /\ result # NoResult
    /\ result.type = "consistency_analysis"
    /\ Len(result.fund_names) = 3
    /\ \E i \in 1..3 : NumericPeriods(result.fund_names[i]) = 2
    /\ Len(result.consistency_ranking) = 2
    /\ \E i, j \in 1..3 :
           /\ i < j
           /\ result.consistency_ranking[1].fund_name = result.fund_names[j]
           /\ result.consistency_ranking[2].fund_name = result.fund_names[i]
           /\ result.consistency_ranking[1].consistency_score
                  > result.consistency_ranking[2].consistency_score

\* the rating band of a reported score (hundredths)
RatingBand(score) ==
    IF score >= 8000 THEN "Highly Consistent"
    ELSE IF score >= 6000 THEN "Moderately Consistent"
    ELSE IF score >= 4000 THEN "Variable"
    ELSE "Highly Variable"

\* C15: every consistency record has a consistency_score within [0, 100],
\* and its rating is the band of the consistency_score it reports.
C15_ScoreRangeAndRating ==
    result # NoResult /\ result.type = "consistency_analysis"
        => \A i \in 1..Len(result.consistency_ranking) :
               LET record == result.consistency_ranking[i]
               IN  /\ record.consistency_score >= 0
                   /\ record.consistency_score <= 10000
                   /\ record.rating = RatingBand(record.consistency_score)

(***************************************************************************)
(* Claims about the fuzzy matcher of performance_analyzer.                 *)
(***************************************************************************)
\* the known names of the matcher
KnownNames == get_all_fund_names(fault)

\* the number of requested keywords that are substrings of the lower-cased
\* known name
Hits(requested, known) ==
    LET keywords == RequestedKeywords(requested)
    IN  Cardinality({k \in 1..Len(keywords) : Contains(Lower(known), keywords[k])})

\* the positions of an analysis
Requests == 1..Len(result.fund_names)

Analysed == result # NoResult /\ result.type = "performance_analysis"

\* C17: a requested name that is one of the known names (case-sensitive)
\* is resolved to itself, whatever the other known names and wherever it
\* stands among them.
C17_ExactMatchWins ==
    Analysed
        => \A i \in Requests :
               result.fund_names[i] \in Range(KnownNames)
                   => result.actual_funds[i] = result.fund_names[i]

\* an exact name that is not the first known name, while an earlier known
\* name contains every keyword of it
C17_Witness ==
    /\ Analysed
    /\ \E i \in Requests : \E a, b \in 1..Len(KnownNames) :
           /\ a < b
           /\ KnownNames[b] = result.fund_names[i]
           /\ Hits(result.fund_names[i], KnownNames[a]) = Hits(result.fund_names[i], KnownNames[b])
           /\ result.actual_funds[i] = result.fund_names[i]

\* C18: a requested name that is not a known name, with a keyword that
\* occurs in some known name, is resolved to the first known name of the
\* greatest keyword-hit count.
C18_FirstBestKeywordMatch ==
    Analysed
        => LET known == KnownNames
           IN  \A i \in Requests :
                   LET requested == result.fund_names[i]
                       hits      == [k \in 1..Len(known) |-> Hits(requested, known[k])]
                   IN  requested \notin Range(known) /\ (\E k \in 1..Len(known) : hits[k] > 0)
                           => \E k \in 1..Len(known) :
                                  /\ result.actual_funds[i] = known[k]
                                  /\ \A j \in 1..Len(known) : hits[j] <= hits[k]
                                  /\ \A j \in 1..(k - 1) : hits[j] < hits[k]

\* a request whose best count is shared by two known names and is not
\* reached by the first known name: the earlier of the two is taken
C18_Witness ==
    /\ Analysed
    /\ LET known == KnownNames
       IN  \E i \in Requests : \E a, b \in 2..Len(known) :
               /\ a < b
               /\ result.fund_names[i] \notin Range(known)
               /\ Hits(result.fund_names[i], known[a]) > Hits(result.fund_names[i], known[1])
               /\ Hits(result.fund_names[i], known[a]) = Hits(result.fund_names[i], known[b])
               /\ result.actual_funds[i] = known[a]

\* the request at position i has a "matched to" note
Noted(i) ==
    \E n \in 1..Len(result.fund_notes) :
        result.fund_notes[n] = [requested |-> result.fund_names[i],
                                actual    |-> result.actual_funds[i]]

\* C19: when no known name scores above zero (also without any keyword), the
\* request is resolved to the first known name, which gets a "matched to"
\* note, or to itself when there is no known name; a request resolved to
\* itself gets no note.
C19_FallbackAndNotes ==
    Analysed
        => LET known == KnownNames
           IN  /\ \A i \in Requests :
                      LET requested == result.fund_names[i]
                      IN  /\ (/\ requested \notin Range(known)
                              /\ \A k \in 1..Len(known) : Hits(requested, known[k]) = 0)
                                 => IF known # <<>>
                                    THEN result.actual_funds[i] = known[1] /\ Noted(i)
                                    ELSE result.actual_funds[i] = requested
                          /\ result.actual_funds[i] = requested => ~Noted(i)
               /\ Len(result.fund_notes) <= Len(result.fund_names)

\* an analysis of three requests: one exact without a note, one without a
\* hit that falls back to the first known name with a note
C19_Witness ==
    /\ Analysed
    /\ Len(KnownNames) >= 2
    /\ \E i, j \in Requests :
           /\ result.actual_funds[i] = result.fund_names[i]
           /\ ~Noted(i)
           /\ result.fund_names[j] \notin Range(KnownNames)
           /\ \A k \in 1..Len(KnownNames) : Hits(result.fund_names[j], KnownNames[k]) = 0
           /\ result.actual_funds[j] = KnownNames[1]
           /\ Noted(j)

(***************************************************************************)
(* Claims about the normalizer of raw values.                              *)
(***************************************************************************)
\* a text reads as a decimal number: surrounding blanks aside, an optional
\* sign, then digits with at most one point and at least one digit
ReadsAsNumber(text) ==
    LET t      == Strip(text)
        body   == IF Len(t) > 0 /\ Head(t) \in {"-", "+"} THEN Tail(t) ELSE t
        points == {i \in 1..Len(body) : Char(body, i) = "."}
    IN  /\ \A i \in 1..Len(body) : Char(body, i) \in Digits \cup {"."}
        /\ Cardinality(points) <= 1
        /\ \E i \in 1..Len(body) : Char(body, i) \in Digits

\* the number a decimal text denotes, in hundredths
NumberRead(text) ==
    LET t        == Strip(text)
        negative == Head(t) = "-"
        body     == IF Head(t) \in {"-", "+"} THEN Tail(t) ELSE t
        point    == IF \E i \in 1..Len(body) : Char(body, i) = "."
                    THEN CHOOSE i \in 1..Len(body) : Char(body, i) = "."
                    ELSE Len(body) + 1
        whole    == DigitsValue(SubSeq(body, 1, point - 1))
        part     == SubSeq(body, point + 1, Len(body))
        hundredths == whole * 100 + (DigitsValue(part) * 100) \div Pow10(Len(part))
    IN  IF negative THEN 0 - hundredths ELSE hundredths

\* a raw text without its commas and percent signs
Unadorned(text) == Remove(Remove(text, ","), "%")

\* C20: _safe_float never raises; it gives null for null, for the empty text,
\* for "-" and for every text that does not read as a number once its commas
\* and percent signs are removed, and for a text that does read as a number
\* it gives that number, not divided by 100.
C20_SafeFloatContract ==
    result.type = "safe_float" =>
        LET value == result.value
            normalized == result.normalized
        IN  /\ normalized # Raise
            /\ value \in {None, Str(""), Str("-")} => normalized = None
            /\ value.t = "str" /\ ~ReadsAsNumber(Unadorned(value.s)) => normalized = None
            /\ value.t = "str" /\ ReadsAsNumber(Unadorned(value.s))
                   => normalized = Num(NumberRead(Unadorned(value.s)))
            /\ value.t = "num" => normalized = value

(***************************************************************************)
(* Claims about the investment amount.                                     *)
(***************************************************************************)
\* the amount a text denotes, in hundredths: the digits of its first run of
\* digits and commas, 100000 when there is no such number
AmountAsSpecified(amount_str) ==
    LET digits == Remove(FirstNumberRun(amount_str), ",")
    IN  IF digits = "" THEN 10000000 ELSE DigitsValue(digits) * 100

\* the call of the tool fails whatever the amount text
FailsWhateverAmount(tool) ==
    IF tool = "portfolio_builder"
    THEN PortfolioResult("Medium", "100,000", "moderate", NoFault).type = "error"
    ELSE FeeResult("100,000", "3 years", NoFault).type = "error"

\* C21: _parse_investment_amount returns for every amount text the number of
\* its first run of digits and commas, or 100000 when there is none, and
\* never fails; portfolio_builder and fee_optimizer never return an error
\* result because of the amount text.
C21_AmountNeverFails ==
    /\ result.type = "investment_amount" =>
           /\ result.value # Raise
           /\ result.value = Num(AmountAsSpecified(result.amount_str))
    /\ "tool" \in DOMAIN result /\ ~FailsWhateverAmount(result.tool) => result.type # "error"

\* the screening score as specified, in thousandths: the defaults stand in
\* for missing values only
ScreeningScoreAsSpecified(fund_data) ==
    Max(Recorded(fund_data, "return_365d", 0) * 4
            + (500 - Recorded(fund_data, "expense_ratio", 500)) * 100, 0)

\* the position of a fund name in the order of get_all_fund_names
ScreenPosition(name) ==
    LET all_funds == get_all_fund_names(NoFault)
    IN  CHOOSE i \in 1..Len(all_funds) : all_funds[i] = name

\* the kept funds are in descending order of screening score, funds of equal
\* score in the order of the fund names
ScreenedInOrder(kept) ==
    \A i, j \in 1..Len(kept) :
        i < j => \/ kept[i].screening_score > kept[j].screening_score
                 \/ /\ kept[i].screening_score = kept[j].screening_score
                    /\ ScreenPosition(kept[i].name) < ScreenPosition(kept[j].name)

\* C22: every fund kept by fund_screener has screening_score
\* max(r * 0.4 + (5 - e) * 10, 0), r the 365-day return (0 only when missing)
\* and e the expense ratio (5 only when missing); the kept funds are sorted
\* by score, descending and stable, then cut to the first 10, and
\* funds_matching counts all kept funds.
C22_ScreeningScoreAndOrder ==
    fault = NoFault /\ result.type = "fund_screening"
        => LET kept == result.screened_funds
           IN  /\ \A i \in 1..Len(kept) :
                      kept[i].screening_score = ScreeningScoreAsSpecified(kept[i])
               /\ ScreenedInOrder(kept)
               /\ Len(kept) = Min(10, result.funds_matching)

(***************************************************************************)
(* Claims about the market alerts.                                         *)
(***************************************************************************)
\* the kinds of alert as specified, in order
AlertsAsSpecified(fund_performance) ==
    LET n      == Len(fund_performance)
        high   == {i \in 1..n : Get(fund_performance[i], "risk_profile", None) = Str("High")}
        total  == SumSeq([i \in 1..n |->
                      IF i \in high THEN Recorded(fund_performance[i], "return_365d", 0) ELSE 0])
    IN  (IF \E i \in 1..n : Recorded(fund_performance[i], "return_365d", 0) > 5000
         THEN <<"high_performers">> ELSE <<>>)
     \o (IF \E i \in 1..n : Recorded(fund_performance[i], "expense_ratio", 500) < 75
         THEN <<"low_fee_funds">> ELSE <<>>)
     \o (IF high # {} /\ total > 6000 * Cardinality(high)
         THEN <<"high_risk_avg">> ELSE <<>>)

\* C23: for every list of fund profiles _generate_market_alerts emits, in
\* this order and nothing else, the exceptional-return alert iff a fund has
\* a 365-day return above 50, the low-fee alert iff a fund has an expense
\* ratio below 0.75 (a missing one never counts), and the high-risk alert
\* iff the mean 365-day return of the funds labelled High exceeds 60.
C23_AlertsAsSpecified ==
    result.type = "market_alerts" =>
        /\ ~result.raised
        /\ [i \in 1..Len(result.alerts) |-> result.alerts[i].alert]
               = AlertsAsSpecified(result.fund_performance)

(***************************************************************************)
(* Claims about the symmetry of the correlations.                          *)
(***************************************************************************)
\* the names whose profiles are compared: the names asked for and a third
\* name of the sheet
ComparedNames == RequestedNames \cup {FundNames[3]}

\* the matrix of the result reads the same by rows and by columns
MatrixSymmetric(correlation_matrix) ==
    \A i, j \in 1..Len(correlation_matrix) :
        /\ Len(correlation_matrix[i].correlations) = Len(correlation_matrix)
        /\ correlation_matrix[i].correlations[j].with_fund = correlation_matrix[j].fund
        /\ correlation_matrix[i].correlations[j].correlation
               = correlation_matrix[j].correlations[i].correlation

\* C28: for all fund profiles a and b, _calculate_correlation(a, b) equals
\* _calculate_correlation(b, a); and the correlation matrix that
\* correlation_analyzer builds is symmetric for every list of fund names.
\* The profiles are those of the store, which no call changes: the pairs are
\* compared in the state before the call.
C28_CorrelationSymmetric ==
    /\ result = NoResult =>
           \A a, b \in ComparedNames :
               _calculate_correlation(_get_fund_complete_data(a, NoFault),
                                      _get_fund_complete_data(b, NoFault))
                   = _calculate_correlation(_get_fund_complete_data(b, NoFault),
                                            _get_fund_complete_data(a, NoFault))
    /\ result.type = "correlation_analysis" => MatrixSymmetric(result.correlation_matrix)

\* a matrix of three different funds in which two funds with different
\* returns are correlated below the clamp
C28_Witness ==
    /\ result.type = "correlation_analysis"
    /\ Len(result.correlation_matrix) = 3
    /\ \E i, j \in 1..3 :
          /\ i # j
          /\ result.correlation_matrix[i].correlations[j].correlation \notin {70000, 30000}
          /\ result.correlation_matrix[i].correlations[j].correlation > 0 - 100000
          /\ result.correlation_matrix[i].correlations[j].correlation < 100000

(***************************************************************************)
(* Claims about the rows of the allocation table.                          *)
(***************************************************************************)
\* risk profiles that are none of the keys of the table
UnkeyedRisks == {"low", "Unknown", ""}

\* the percentages of the Low, Medium and High buckets for the profile High
HighRows == {<<20, 30, 50>>, <<10, 30, 60>>}

\* every entry of the portfolio holds the percentage its bucket has for the
\* profile High
ReceivesHighRow(portfolio) ==
    \A i \in 1..Len(portfolio.allocation) :
        \E b \in 1..3 :
            /\ RiskCategories[b] = portfolio.allocation[i].risk_category
            /\ portfolio.allocation[i].percentage
                   = AllocationTable("High", portfolio.diversification_level)[b]

\* C29: _create_portfolio_allocation applies a row of the allocation table
\* only to the risk profile it is keyed by: a risk profile that is none of
\* "Low", "Medium" and "High" (for example "low", "Unknown" or the empty
\* string) never receives the High row (20/30/50 or 10/30/60).
C29_RowOnlyForItsKey ==
    /\ \A risk_profile \in UnkeyedRisks, diversification \in DiversificationLevels :
           AllocationTable(risk_profile, diversification) \notin HighRows
    /\ (result.type = "portfolio" /\ result.title \notin {"Low", "Medium", "High"})
           => ~ReceivesHighRow(result)

(***************************************************************************)
(* Claims about the lead dialogue.                                         *)
(***************************************************************************)
\* the refusal is in the context of the session
DeclinedInContext == HasFlag(user_context, "lead_collection_declined")

\* the last call was a collect_lead
CollectLeadCalled == Get(result, "tool", "") = "collect_lead"

\* C24: once a user has declined lead collection the form is never offered
\* again: from the moment the flag lead_collection_declined that
\* handle_lead_response("decline") emits is in the context of the session,
\* every later collect_lead call returns type "lead_collection_declined"
\* and never the form "lead_collection", whatever the other keys of the
\* context (lead_submitted among them) and however many calls lie between.
C24_NeverOfferedAgain ==
    [](DeclinedInContext
          => [](/\ DeclinedInContext
                /\ result.type # "lead_collection"
                /\ CollectLeadCalled => result.type = "lead_collection_declined"))

\* collect_lead called with a context that holds both the refusal and a
\* later submission
C24_Witness ==
    /\ DeclinedInContext
    /\ HasFlag(user_context, "lead_submitted")
    /\ Get(user_context, "user_name", None) = Str("Ali")
    /\ CollectLeadCalled
    /\ result.type = "lead_collection_declined"

(***************************************************************************)
(* Claims about the chat server.                                           *)
(***************************************************************************)
\* user, assistant, user, assistant, ...
Alternates(messages) ==
    /\ Len(messages) % 2 = 0
    /\ \A i \in 1..Len(messages) :
          messages[i].role = IF i % 2 = 1 THEN "user" ELSE "assistant"

\* request r answers in this step
Answers(r) == requests[r].pc = "ainvoke" /\ requests'[r].pc \in {"done", "failed"}

\* the step adds the user message of request r and one assistant message
\* to the session of r, and nothing else
AppendsOneExchange(r) ==
    LET session_id == requests[r].session_id
    IN  /\ session_id \in DOMAIN active_sessions
        /\ DOMAIN active_sessions' = DOMAIN active_sessions
        /\ \A other \in DOMAIN active_sessions \ {session_id} :
              active_sessions'[other] = active_sessions[other]
        /\ LET before == active_sessions[session_id].messages
               after  == active_sessions'[session_id].messages
           IN  /\ Len(after) = Len(before) + 2
               /\ SubSeq(after, 1, Len(before)) = before
               /\ after[Len(before) + 1] = ChatMessage("user", requests[r].message, r)
               /\ after[Len(before) + 2].role = "assistant"
               /\ after[Len(before) + 2].request = r

\* C25: in every reachable state of the session store, under any
\* interleaving of concurrent /chat, history and delete requests, the list
\* of messages of each session has even length and alternates user,
\* assistant, user, assistant; a /chat request that succeeds appends
\* exactly one user message followed by one assistant message to its
\* session, and a /chat request that fails appends nothing.
C25_SessionsAlternate ==
    /\ [](\A session_id \in DOMAIN active_sessions :
              Alternates(active_sessions[session_id].messages))
    /\ [][\A r \in RequestIds :
              Answers(r) => IF requests'[r].pc = "done" THEN AppendsOneExchange(r)
                            ELSE active_sessions' = active_sessions]_vars

\* C26: after clear_session(s) has succeeded, the history of s never holds
\* a message of a /chat request that started before the clear: a request
\* for s that was awaiting when s was cleared adds neither its user nor its
\* assistant message to a later incarnation of s, also when another /chat
\* request re-creates s before the earlier one resumes.
C26_NoMessageFromBeforeClear ==
    \A session_id \in DOMAIN active_sessions :
        \A i \in 1..Len(active_sessions[session_id].messages) :
            ~requests[active_sessions[session_id].messages[i].request].cleared

\* the lead messages of the front end
ControlToken(message) ==
    message \in {"LEAD_DECLINE", "LEAD_CLOSE"} \/ StartsWith(message, "LEAD_SUBMIT:")

\* C27: for every /chat request whose message is "LEAD_DECLINE",
\* "LEAD_CLOSE" or starts with "LEAD_SUBMIT:", the current user turn handed
\* to the agent is the rewritten natural-language message and never the
\* raw control token, for the first message of a session and for later
\* messages alike.
C27_ControlTokenRewritten ==
    \A r \in RequestIds :
        (requests[r].agent_input # <<>> /\ ControlToken(requests[r].message))
            => LET turn == requests[r].agent_input[Len(requests[r].agent_input)]
               IN  /\ turn.role = "user"
                   /\ turn.content = ProcessedMessage(requests[r].message)
                   /\ turn.content # requests[r].message

(***************************************************************************)
(* Claims about the upserters.                                             *)
(***************************************************************************)
\* C30: in both upserters (EducationalDataUpserter.upsert_data and
\* FundDataUpserter.upsert_all_data) every batch passed to _upsert_batch
\* holds between 1 and batch_size vectors, for every input size, every
\* number of chunks per row and every pattern of failing embedding or
\* upsert calls.
C30_BatchWithinSize ==
    \A i \in 1..Len(upserted) : upserted[i] >= 1 /\ upserted[i] <= batch_size

====
